---- MODULE Spec2Model ----
(***************************************************************************)
(* Model of the log triage of circle-debug: the error-pattern scan and the *)
(* progressive disclosure (full / tail-N / smart summary + last 50 lines)  *)
(* that analyze_build (src/src/main.rs) applies to the log of one failed   *)
(* action.                                                                 *)
(*                                                                         *)
(* Text is modelled at character level: a line is a TLA+ string, a         *)
(* pattern is a sequence of regex elements, and matching, trimming and     *)
(* lower-casing are computed character by character.  A log body (a Rust   *)
(* String) is the sequence of its segments between "\n" characters, so the *)
(* body "a\nb\n" is <<"a", "b", "">> and the empty body is <<"">>.         *)
(***************************************************************************)
EXTENDS Integers, Sequences, FiniteSets, TLC

(***************************************************************************)
(* Strings                                                                 *)
(***************************************************************************)
UpperChars == "ABCDEFGHIJKLMNOPQRSTUVWXYZ"
LowerChars == "abcdefghijklmnopqrstuvwxyz"
DigitChars == {"0", "1", "2", "3", "4", "5", "6", "7", "8", "9"}
WhiteSpace == {" ", "\t"}

CharAt(s, i) == SubSeq(s, i, i)

\* char::to_lowercase on the ASCII letters
LowerChar(c) ==
    IF \E i \in 1..Len(UpperChars) : CharAt(UpperChars, i) = c
    THEN LET i == CHOOSE i \in 1..Len(UpperChars) : CharAt(UpperChars, i) = c
         IN  CharAt(LowerChars, i)
    ELSE c

RECURSIVE to_lowercase(_)
to_lowercase(s) ==
    IF Len(s) = 0 THEN ""
    ELSE LowerChar(CharAt(s, 1)) \o to_lowercase(SubSeq(s, 2, Len(s)))

\* str::contains
contains(s, t) ==
    \E i \in 1..(Len(s) - Len(t) + 1) : SubSeq(s, i, i + Len(t) - 1) = t

RECURSIVE trim_start(_)
trim_start(s) ==
    IF Len(s) > 0 /\ CharAt(s, 1) \in WhiteSpace
    THEN trim_start(SubSeq(s, 2, Len(s)))
    ELSE s

RECURSIVE trim_end(_)
trim_end(s) ==
    IF Len(s) > 0 /\ CharAt(s, Len(s)) \in WhiteSpace
    THEN trim_end(SubSeq(s, 1, Len(s) - 1))
    ELSE s

\* str::trim
trim(s) == trim_end(trim_start(s))

(***************************************************************************)
(* Regular expressions: the constructs the catalogue uses.  A pattern is a *)
(* sequence of elements: a literal, ".*", an alternation of literals,      *)
(* "\d+" and a character class.  All patterns carry the (?i) flag.         *)
(***************************************************************************)
Lit(s)    == [t |-> "lit",    s |-> s,  set |-> {}]
AnyStar   == [t |-> "any",    s |-> "", set |-> {}]
Alt(S)    == [t |-> "alt",    s |-> "", set |-> S]
Digits1   == [t |-> "digits", s |-> "", set |-> {}]
Class(S)  == [t |-> "class",  s |-> "", set |-> S]

\* the literal w occurs at position i of s, letter case ignored
LitAt(w, s, i) ==
    /\ i + Len(w) - 1 <= Len(s)
    /\ to_lowercase(SubSeq(s, i, i + Len(w) - 1)) = to_lowercase(w)

\* elements k.. of pat match a prefix of s that starts at position i
RECURSIVE MatchFrom(_, _, _, _)
MatchFrom(pat, k, s, i) ==
    IF k > Len(pat) THEN TRUE
    ELSE LET e == pat[k] IN
         CASE e.t = "lit" ->
                  LitAt(e.s, s, i) /\ MatchFrom(pat, k + 1, s, i + Len(e.s))
           [] e.t = "any" ->
                  \E j \in i..(Len(s) + 1) : MatchFrom(pat, k + 1, s, j)
           [] e.t = "alt" ->
                  \E w \in e.set :
                      LitAt(w, s, i) /\ MatchFrom(pat, k + 1, s, i + Len(w))
           [] e.t = "digits" ->
                  \E j \in (i + 1)..(Len(s) + 1) :
                      /\ \A p \in i..(j - 1) : CharAt(s, p) \in DigitChars
                      /\ MatchFrom(pat, k + 1, s, j)
           [] e.t = "class" ->
                  /\ i <= Len(s)
                  /\ CharAt(s, i) \in e.set
                  /\ MatchFrom(pat, k + 1, s, i + 1)

\* Regex::is_match: an unanchored search
is_match(pat, s) == \E i \in 1..(Len(s) + 1) : MatchFrom(pat, 1, s, i)

(***************************************************************************)
(* The catalogue, in source order                                          *)
(***************************************************************************)
Sig(p, c) == [pattern |-> p, category |-> c]

error_patterns_specific_first ==
    << Sig(<<Lit("[commonjs--resolver]"), AnyStar, Lit("failed to resolve")>>,
           "Module Resolution"),
       Sig(<<Lit("cannot find module")>>, "Missing Module"),
       Sig(<<Lit("ENOENT:"), AnyStar, Lit("no such file or directory")>>,
           "File Not Found"),
       Sig(<<Lit("syntaxerror:")>>, "Syntax Error"),
       Sig(<<Lit("typeerror:")>>, "Type Error"),
       Sig(<<Lit("referenceerror:")>>, "Reference Error"),
       Sig(<<Lit("segmentation fault")>>, "Segfault"),
       Sig(<<Alt({"oom", "out of memory", "memory limit"})>>, "Out of Memory"),
       Sig(<<Lit("build failed")>>, "Build Failure"),
       Sig(<<Lit("compilation failed")>>, "Compilation Error"),
       Sig(<<Lit("error TS"), Digits1, Lit(":")>>, "TypeScript Error"),
       Sig(<<Lit("eslint"), AnyStar, Lit("error")>>, "Lint Error"),
       Sig(<<Digits1, Lit(" "), Alt({"test", "tests", "spec", "specs"}),
             Lit(" failed")>>, "Test Suite Failure"),
       Sig(<<Lit("assertion"), AnyStar, Lit("failed")>>, "Assertion Failure"),
       Sig(<<Lit("test"), AnyStar, Lit("failed")>>, "Test Failure"),
       Sig(<<Lit("npm err!")>>, "NPM Error"),
       Sig(<<Lit("yarn error")>>, "Yarn Error"),
       Sig(<<Lit("dependency"), AnyStar, Lit("not found")>>,
           "Missing Dependency"),
       Sig(<<Lit("exited with "), Alt({"code", "status"}), Lit(" "),
             Class({"1", "2", "3", "4", "5", "6", "7", "8", "9"})>>,
           "Non-zero Exit"),
       Sig(<<Lit("command failed")>>, "Command Failure") >>

error_patterns ==
    << Sig(<<Lit("[commonjs--resolver]"), AnyStar, Lit("failed to resolve")>>,
           "Module Resolution"),
       Sig(<<Lit("cannot find module")>>, "Missing Module"),
       Sig(<<Lit("ENOENT:"), AnyStar, Lit("no such file or directory")>>,
           "File Not Found"),
       Sig(<<Lit("syntaxerror:")>>, "Syntax Error"),
       Sig(<<Lit("typeerror:")>>, "Type Error"),
       Sig(<<Lit("referenceerror:")>>, "Reference Error"),
       Sig(<<Lit("segmentation fault")>>, "Segfault"),
       Sig(<<Alt({"oom", "out of memory", "memory limit"})>>, "Out of Memory"),
       Sig(<<Lit("build failed")>>, "Build Failure"),
       Sig(<<Lit("compilation failed")>>, "Compilation Error"),
       Sig(<<Lit("error TS"), Digits1, Lit(":")>>, "TypeScript Error"),
       Sig(<<Lit("eslint"), AnyStar, Lit("error")>>, "Lint Error"),
       Sig(<<Lit("test"), AnyStar, Lit("failed")>>, "Test Failure"),
       Sig(<<Lit("assertion"), AnyStar, Lit("failed")>>, "Assertion Failure"),
       Sig(<<Digits1, Lit(" "), Alt({"test", "tests", "spec", "specs"}),
             Lit(" failed")>>, "Test Suite Failure"),
       Sig(<<Lit("npm err!")>>, "NPM Error"),
       Sig(<<Lit("yarn error")>>, "Yarn Error"),
       Sig(<<Lit("dependency"), AnyStar, Lit("not found")>>,
           "Missing Dependency"),
       Sig(<<Lit("exited with "), Alt({"code", "status"}), Lit(" "),
             Class({"1", "2", "3", "4", "5", "6", "7", "8", "9"})>>,
           "Non-zero Exit"),
       Sig(<<Lit("command failed")>>, "Command Failure") >>

NumPatterns == Len(error_patterns)

\* category -> position in the catalogue (the categories are pairwise distinct)
PatternIndex(category) ==
    CHOOSE k \in 1..NumPatterns : error_patterns[k].category = category

(***************************************************************************)
(* Log bodies                                                              *)
(***************************************************************************)
None    == <<>>
Some(v) == <<v>>

MissingModuleLine == "Error: cannot find module 'foo'"
ResolverLine      == "[commonjs--resolver] Failed to resolve entry"
FillerLine        == "Compiling app"

\* the lines the longer modelled logs are made of
CoreLines ==
    { MissingModuleLine,              \* Missing Module
      "5 tests failed",               \* Test Failure and Test Suite Failure
      "  npm ERR! code ELIFECYCLE",   \* NPM Error; indented, no "error" in it
      "  FAIL src/app.test.js",       \* no signature; a failure marker
      ResolverLine,                   \* Module Resolution
      FillerLine,                     \* no signature, plain
      "" }

ReadmeUpperLine  == "ENOENT: no such file or directory, open 'README.md'"
ReadmeMixedLine  == "ENOENT: no such file or directory, open 'Readme.md'"
PackageJsonLine  == "ENOENT: no such file or directory, open 'package.json'"
ReadmeAndPkgLine == "enoent: no such file or directory, readme.md of package.json"
OtherPathLine    == "Enoent: no such file or directory, open 'src/app.js'"

\* one line for every other signature of the catalogue
SignatureLines ==
    { ReadmeUpperLine, ReadmeMixedLine, PackageJsonLine, ReadmeAndPkgLine,
      OtherPathLine,
      "SyntaxError: Unexpected token",
      "TypeError: x is not a function",
      "ReferenceError: y is not defined",
      "Segmentation fault (core dumped)",
      "JavaScript heap out of memory",
      "Build failed",
      "Compilation failed",
      "a.ts(1,1): error TS2304: Cannot find name",
      "ESLint found 1 error",
      "Assertion x == y failed",
      "yarn error v1.22",
      "dependency lodash not found",
      "Exited with code 1",
      "Command failed: make" }

\* lines no signature matches, for the classes of the window
UnmatchedLines ==
    { "npm WARN deprecated x@1",      \* "warn" only
      "warning: 2 errors ignored",    \* "warn" and "error"
      "^ 3 checks",                   \* the failure glyph
      "Job Failed",                   \* "failed", letter case ignored
      "fail fast disabled",           \* lower-case "fail": no marker
      "Exited with code 0" }          \* no signature, plain

LogLines == CoreLines \cup SignatureLines \cup UnmatchedLines

\* tables over LogLines of the per-line computations of the scan and the window
MatchingPatterns ==
    [l \in LogLines |->
        {k \in 1..NumPatterns : is_match(error_patterns[k].pattern, l)}]

Trimmed == [l \in LogLines |-> trim(l)]

\* re.is_match(line) for the k-th pattern of the catalogue
line_matches(k, line) == k \in MatchingPatterns[line]

MaxRuns    == 2
RunLengths == {1, 5}
Paddings   == {<<0, 0>>, <<3, 42>>}
TailChoices == {2, 51}
Filters    == {"failed"}

Replicate(l, n) == [i \in 1..n |-> l]

RECURSIVE Cores(_)
Cores(r) ==
    IF r = 0 THEN {<<>>}
    ELSE LET prev == Cores(r - 1)
         IN  prev \cup {c \o Replicate(l, n) :
                            c \in prev, l \in CoreLines, n \in RunLengths}

\* a String as its segments between "\n": never the empty sequence
AsText(segs) == IF segs = <<>> THEN <<"">> ELSE segs

Bodies ==
    {AsText(Replicate(FillerLine, p[1]) \o c \o Replicate(FillerLine, p[2])) :
        c \in Cores(MaxRuns), p \in Paddings}
    \cup {<<l>> : l \in SignatureLines \cup UnmatchedLines}

\* the segments as split('\n') gives them, a final empty one included
lines_keeps_final_segment(text) == text

\* str::lines: the segments, without a final empty one
lines(text) ==
    IF text[Len(text)] = "" THEN SubSeq(text, 1, Len(text) - 1) ELSE text

\* Vec<&str>::join("\n")
join(ls) == AsText(ls)

\* String::is_empty
is_empty(text) == text = <<"">>

(***************************************************************************)
(* lib.rs: the build URL, durations, the helpers of BuildInfo              *)
(***************************************************************************)
\* Result<T>
Ok(v)  == [ok |-> TRUE,  value |-> v]
Err(e) == [ok |-> FALSE, value |-> e]

\* the stand-in, in ASCII, of a decimal digit outside ASCII (U+0661)
ArabicIndicOne == "#"

\* the characters \d matches: the regex crate is Unicode-aware on a &str
UnicodeDigits == DigitChars \cup {ArabicIndicOne}

DecimalDigits == "0123456789"

DigitValue(c) ==
    (CHOOSE i \in 1..Len(DecimalDigits) : CharAt(DecimalDigits, i) = c) - 1

\* [^/]+ from position i: the position after the longest run without "/"
RECURSIVE segment_end(_, _)
segment_end(s, i) ==
    IF i <= Len(s) /\ CharAt(s, i) # "/" THEN segment_end(s, i + 1) ELSE i

\* \d+ from position i: the position after the longest run of digits
RECURSIVE digits_end(_, _)
digits_end(s, i) ==
    IF i <= Len(s) /\ CharAt(s, i) \in UnicodeDigits
    THEN digits_end(s, i + 1)
    ELSE i

UrlLiteral == "circleci.com/gh/"

\* circleci\.com/gh/([^/]+)/([^/]+)/(\d+) tried at position i: the three
\* groups, or None.  Both [^/]+ are followed by "/" and \d+ ends the
\* pattern, so the greedy match is the only one at a position.
captures_at(url, i) ==
    LET a == i + Len(UrlLiteral)
        b == segment_end(url, a)
        c == segment_end(url, b + 1)
        d == digits_end(url, c + 1)
    IN  IF /\ a - 1 <= Len(url)
           /\ SubSeq(url, i, a - 1) = UrlLiteral
           /\ b > a /\ b <= Len(url)
           /\ c > b + 1 /\ c <= Len(url)
           /\ d > c + 1
        THEN Some(<<SubSeq(url, a, b - 1), SubSeq(url, b + 1, c - 1),
                    SubSeq(url, c + 1, d - 1)>>)
        ELSE None

\* Regex::captures: the match that starts leftmost
captures(url) ==
    LET starts == {i \in 1..Len(url) : captures_at(url, i) # None}
    IN  IF starts = {} THEN None
        ELSE captures_at(url, CHOOSE i \in starts : \A j \in starts : i <= j)

RECURSIVE strip_zeros(_)
strip_zeros(s) ==
    IF Len(s) > 1 /\ CharAt(s, 1) = "0"
    THEN strip_zeros(SubSeq(s, 2, Len(s)))
    ELSE s

\* a <= b for two numerals of the same length
RECURSIVE numeral_leq(_, _)
numeral_leq(a, b) ==
    IF Len(a) = 0 THEN TRUE
    ELSE IF CharAt(a, 1) # CharAt(b, 1)
    THEN DigitValue(CharAt(a, 1)) < DigitValue(CharAt(b, 1))
    ELSE numeral_leq(SubSeq(a, 2, Len(a)), SubSeq(b, 2, Len(b)))

U32Max == "4294967295"

\* the numeral, without leading zeros, is at most u32::MAX
numeral_fits(n) ==
    \/ Len(n) < Len(U32Max)
    \/ Len(n) = Len(U32Max) /\ numeral_leq(n, U32Max)

\* str::parse::<u32> of a run that \d+ matched: ASCII digits only.  A u32 is
\* kept as its decimal numeral, the form in which the program prints it.
parse_u32(s) ==
    IF \E i \in 1..Len(s) : CharAt(s, i) \notin DigitChars
    THEN Err("invalid digit found in string")
    ELSE IF ~numeral_fits(strip_zeros(s))
    THEN Err("number too large to fit in target type")
    ELSE Ok(strip_zeros(s))

\* parse_circleci_url: (org, project, build_num) or an error
parse_circleci_url(url) ==
    LET caps == captures(url)
    IN  IF caps = None THEN Err("cannot parse CircleCI URL")
        ELSE LET build_num == parse_u32(caps[1][3])
             IN  IF build_num.ok
                 THEN Ok(<<caps[1][1], caps[1][2], build_num.value>>)
                 ELSE Err(build_num.value)

\* format!("{}", n) of an unsigned integer
RECURSIVE to_string(_)
to_string(n) ==
    IF n < 10 THEN CharAt(DecimalDigits, n + 1)
    ELSE to_string(n \div 10) \o CharAt(DecimalDigits, (n % 10) + 1)

\* the seconds rounded to the nearest, not cut off
format_duration_rounded(millis) ==
    LET seconds           == (millis + 500) \div 1000
        minutes           == seconds \div 60
        remaining_seconds == seconds % 60
    IN  IF minutes > 0
        THEN to_string(minutes) \o "m " \o to_string(remaining_seconds) \o "s"
        ELSE to_string(seconds) \o "s"

\* format_duration
format_duration(millis) ==
    LET seconds           == millis \div 1000
        minutes           == seconds \div 60
        remaining_seconds == seconds % 60
    IN  IF minutes > 0
        THEN to_string(minutes) \o "m " \o to_string(remaining_seconds) \o "s"
        ELSE to_string(seconds) \o "s"

\* Option::unwrap_or
unwrap_or(opt, default) == IF opt = None THEN default ELSE opt[1]

\* Action::is_failed
Action_is_failed(action) ==
    unwrap_or(action.failed, FALSE) \/ action.status = "failed"

\* a step fails when one of its actions has the status "failed"
Step_has_failures_by_status(step) ==
    \E a \in 1..Len(step.actions) : step.actions[a].status = "failed"

\* Step::has_failures
Step_has_failures(step) ==
    \E a \in 1..Len(step.actions) :
        unwrap_or(step.actions[a].failed, FALSE)

\* the positions (step, action) of a build, step by step
RECURSIVE positions_from(_, _)
positions_from(steps, s) ==
    IF s > Len(steps) THEN <<>>
    ELSE [a \in 1..Len(steps[s].actions) |-> <<s, a>>]
         \o positions_from(steps, s + 1)

\* BuildInfo::failed_actions; a reference &Action is the position of the
\* action in the build
failed_actions(build) ==
    SelectSeq(positions_from(build.steps, 1),
              LAMBDA p : unwrap_or(build.steps[p[1]].actions[p[2]].failed,
                                   FALSE))

(***************************************************************************)
(* The build, its logs on the server, the files                            *)
(***************************************************************************)
\* the stand-in, in ASCII, of the escape character U+001B
Esc == "~"

\* \x1b\[[0-9;]*m at position i of a line: the position after the match,
\* or 0.  The run [0-9;]* is followed by "m", so it is matched whole.
RECURSIVE params_end(_, _)
params_end(s, i) ==
    IF i <= Len(s) /\ CharAt(s, i) \in DigitChars \cup {";"}
    THEN params_end(s, i + 1)
    ELSE i

ansi_end(s, i) ==
    IF i + 1 <= Len(s) /\ CharAt(s, i) = Esc /\ CharAt(s, i + 1) = "["
    THEN LET e == params_end(s, i + 2)
         IN  IF e <= Len(s) /\ CharAt(s, e) = "m" THEN e + 1 ELSE 0
    ELSE 0

\* ansi_re.replace_all(line, "") from position i on
RECURSIVE strip_from(_, _)
strip_from(s, i) ==
    IF i > Len(s) THEN ""
    ELSE IF ansi_end(s, i) # 0 THEN strip_from(s, ansi_end(s, i))
    ELSE CharAt(s, i) \o strip_from(s, i + 1)

\* the escape codes hold no "\n": the body is stripped segment by segment
strip_ansi(text) == [i \in 1..Len(text) |-> strip_from(text[i], 1)]

\* the logs the server has, by output_url, as sent: with colour codes
RawLogA ==
    << Esc \o "[1;31m" \o ResolverLine \o Esc \o "[0m", MissingModuleLine, "" >>
RawLogB == << "5 tests failed" >>

UrlA == "https://circle-production-action-output/a"
UrlB == "https://circle-production-action-output/b"

server_logs == (UrlA :> RawLogA) @@ (UrlB :> RawLogB)

\* the actions the modelled builds are made of
FlaggedA ==
    [name |-> "npm test", status |-> "failed", failed |-> Some(TRUE),
     output_url |-> Some(UrlA), run_time_millis |-> Some(61000)]
FlaggedB ==
    [name |-> "npm run lint", status |-> "failed", failed |-> Some(TRUE),
     output_url |-> Some(UrlB), run_time_millis |-> Some(999)]
FlaggedNoUrl ==
    [name |-> "spin up", status |-> "timedout", failed |-> Some(TRUE),
     output_url |-> None, run_time_millis |-> None]
StatusOnly ==
    [name |-> "deploy", status |-> "failed", failed |-> None,
     output_url |-> Some(UrlA), run_time_millis |-> Some(30000)]
StatusUnflagged ==
    [name |-> "notify", status |-> "failed", failed |-> Some(FALSE),
     output_url |-> Some(UrlB), run_time_millis |-> Some(100)]
Passed ==
    [name |-> "checkout", status |-> "success", failed |-> Some(FALSE),
     output_url |-> Some(UrlB), run_time_millis |-> Some(2500)]

Step(name, acts) == [name |-> name, actions |-> acts]

StepTemplates ==
    { Step("lint", <<Passed, FlaggedB>>),
      Step("test and lint", <<FlaggedA, FlaggedB>>),
      Step("deploy", <<StatusOnly, StatusUnflagged>>),
      Step("setup and test", <<FlaggedNoUrl, StatusOnly, FlaggedA>>) }

MaxSteps == 2

RECURSIVE StepSeqs(_)
StepSeqs(n) ==
    IF n = 0 THEN {<<>>}
    ELSE LET prev == StepSeqs(n - 1)
         IN  prev \cup {Append(ss, st) : ss \in prev, st \in StepTemplates}

GoodUrl == "https://circleci.com/gh/acme/shop/1234"
BadUrl  == "https://circleci.com/gh/acme/shop/"

BuildOf(steps) ==
    [build_num |-> "1234", status |-> "failed", branch |-> Some("main"),
     subject |-> None, steps |-> steps]

Builds == {BuildOf(ss) : ss \in StepSeqs(MaxSteps)}

\* format!("/tmp/cdb-{}.log", build_num)
auto_save_path(build_num) == "/tmp/cdb-" \o build_num \o ".log"

NoFiles == <<>>

\* std::fs::write: the file is created or replaced
fs_write(fs, path, content) ==
    [p \in DOMAIN fs \cup {path} |-> IF p = path THEN content ELSE fs[p]]

(***************************************************************************)
(* State                                                                   *)
(***************************************************************************)
VARIABLES
    pc,                  \* position in analyze_build's handling of one log
    full_logs,           \* --full
    tail_lines,          \* --tail N: None or Some(N)
    filter,              \* --filter TEXT: None or Some(TEXT)
    clean_logs,          \* the fetched log body, ANSI codes stripped
    filtered_logs,       \* the log body that is scanned and rendered
    pattern_idx,         \* outer loop: position in error_patterns
    line_idx,            \* inner loop: lines of filtered_logs examined so far
    found_errors,        \* Vec of (category, line, line_num)
    error_line_numbers,  \* Vec of line_num
    out,                 \* what has been printed, in order
    malformed,           \* 0, or the position of a pattern Regex::new rejects
    action_no,           \* the failed action whose log is being handled
    previous,            \* None, or the log and the matches of the action before
    url,                 \* the build URL of the command line
    no_fetch,            \* --no-fetch
    output_file,         \* --output PATH: None or Some(PATH)
    build,               \* the BuildInfo the API has for the build
    parsed,              \* None, or the Result of parse_circleci_url(url)
    requests,            \* the HTTP requests sent so far, in order
    files,               \* the files written so far: path -> content
    cursor               \* the (step, action) the loops of analyze_build are at

vars == <<pc, full_logs, tail_lines, filter, clean_logs, filtered_logs,
          pattern_idx, line_idx, found_errors, error_line_numbers, out,
          malformed, action_no, previous, url, no_fetch, output_file, build,
          parsed, requests, files, cursor>>

inputs  == <<full_logs, tail_lines, filter, clean_logs, malformed,
             url, no_fetch, output_file, build>>
scan    == <<pattern_idx, line_idx, found_errors, error_line_numbers>>
actions == <<action_no, previous>>
run     == <<parsed, requests, files, cursor>>

\* the run up to the point where the log of the first failed action has
\* been fetched and saved
InitFetched ==
    /\ url = GoodUrl
    /\ parsed = Some(parse_circleci_url(GoodUrl))
    /\ no_fetch = FALSE
    /\ output_file = None
    /\ build = BuildOf(<<Step("test", <<FlaggedA>>)>>)
    /\ requests = << [kind |-> "get_build", build_num |-> "1234"],
                     [kind |-> "get_logs", url |-> UrlA] >>
    /\ files = fs_write(NoFiles, auto_save_path("1234"), clean_logs)
    /\ cursor = <<1, 1>>

\* the first failed action of a build, its log fetched
InitRun ==
    /\ pc = "fetched"
    /\ clean_logs \in Bodies
    /\ full_logs \in BOOLEAN
    /\ tail_lines \in {None} \cup {Some(n) : n \in TailChoices}
    /\ filter \in {None} \cup {Some(f) : f \in Filters}
    /\ full_logs /\ tail_lines # None => tail_lines = Some(2) /\ filter = None
    /\ tail_lines = Some(51) => filter = None
    /\ filtered_logs = <<"">>
    /\ pattern_idx = 0
    /\ line_idx = 0
    /\ found_errors = <<>>
    /\ error_line_numbers = <<>>
    /\ out = <<>>
    /\ action_no = 1
    /\ previous = None
    /\ InitFetched

\* the catalogue of the source: each of its patterns compiles
Init ==
    /\ InitRun
    /\ malformed = 0

(***************************************************************************)
(* Helpers of the rendering                                                *)
(***************************************************************************)
MatchCap   == 5
show_lines == 50

\* Vec::contains
vec_contains(v, x) == \E i \in 1..Len(v) : v[i] = x

window_start_head(len, n) == IF len > n THEN n ELSE 0

\* if lines.len() > n { lines.len() - n } else { 0 }
window_start(len, n) == IF len > n THEN len - n ELSE 0

\* Iterator::skip
skip(s, n) == SubSeq(s, n + 1, Len(s))

\* Iterator::take
take(s, n) == SubSeq(s, 1, IF Len(s) < n THEN Len(s) ELSE n)

\* the stand-in, in ASCII, of the failure glyph U+2717
CrossMark == "^"

suggestion_wrong_arm(category, line) ==
    CASE category \in {"Missing Module", "File Not Found"} ->
             Some("Run 'npm install' to ensure dependencies are installed")
      [] category = "Missing Dependency" ->
             Some("Run 'npm install' or check package.json dependencies")
      [] OTHER -> None

\* a hint also for the categories without a mapped suggestion
suggestion_for_every_category(category, line) ==
    CASE category = "File Not Found" ->
             IF contains(line, "README") \/ contains(line, "readme")
             THEN Some("Check file case sensitivity (README.md vs readme.md)")
             ELSE IF contains(line, "package.json")
             THEN Some("Run 'npm install' to ensure dependencies are installed")
             ELSE Some("Verify file exists and path is correct")
      [] category \in {"Missing Module", "Missing Dependency"} ->
             Some("Run 'npm install' or check package.json dependencies")
      [] category = "TypeScript Error" ->
             Some("Run 'npm run typecheck' locally to see full type errors")
      [] category = "Lint Error" ->
             Some("Run 'npm run lint -- --fix' to auto-fix some issues")
      [] category \in {"Test Failure", "Test Suite Failure"} ->
             Some("Run tests locally with '--verbose' for more details")
      [] category = "Out of Memory" ->
             Some("Increase Node memory: NODE_OPTIONS='--max-old-space-size=4096'")
      [] category \in {"NPM Error", "Yarn Error"} ->
             Some("Clear cache (npm cache clean --force) and reinstall")
      [] OTHER -> Some("Verify file exists and path is correct")

\* the README test made in any letter case
suggestion_readme_any_case(category, line) ==
    CASE category = "File Not Found" ->
             IF contains(to_lowercase(line), "readme")
             THEN Some("Check file case sensitivity (README.md vs readme.md)")
             ELSE IF contains(line, "package.json")
             THEN Some("Run 'npm install' to ensure dependencies are installed")
             ELSE Some("Verify file exists and path is correct")
      [] category \in {"Missing Module", "Missing Dependency"} ->
             Some("Run 'npm install' or check package.json dependencies")
      [] category = "TypeScript Error" ->
             Some("Run 'npm run typecheck' locally to see full type errors")
      [] category = "Lint Error" ->
             Some("Run 'npm run lint -- --fix' to auto-fix some issues")
      [] category \in {"Test Failure", "Test Suite Failure"} ->
             Some("Run tests locally with '--verbose' for more details")
      [] category = "Out of Memory" ->
             Some("Increase Node memory: NODE_OPTIONS='--max-old-space-size=4096'")
      [] category \in {"NPM Error", "Yarn Error"} ->
             Some("Clear cache (npm cache clean --force) and reinstall")
      [] OTHER -> None

\* the contextual suggestion of one match: None or Some(text)
suggestion(category, line) ==
    CASE category = "File Not Found" ->
             IF contains(line, "README") \/ contains(line, "readme")
             THEN Some("Check file case sensitivity (README.md vs readme.md)")
             ELSE IF contains(line, "package.json")
             THEN Some("Run 'npm install' to ensure dependencies are installed")
             ELSE Some("Verify file exists and path is correct")
      [] category \in {"Missing Module", "Missing Dependency"} ->
             Some("Run 'npm install' or check package.json dependencies")
      [] category = "TypeScript Error" ->
             Some("Run 'npm run typecheck' locally to see full type errors")
      [] category = "Lint Error" ->
             Some("Run 'npm run lint -- --fix' to auto-fix some issues")
      [] category \in {"Test Failure", "Test Suite Failure"} ->
             Some("Run tests locally with '--verbose' for more details")
      [] category = "Out of Memory" ->
             Some("Increase Node memory: NODE_OPTIONS='--max-old-space-size=4096'")
      [] category \in {"NPM Error", "Yarn Error"} ->
             Some("Clear cache (npm cache clean --force) and reinstall")
      [] OTHER -> None

\* the warning test tried before the error tests
text_class_warn_first(trimmed) ==
    IF contains(to_lowercase(trimmed), "warn") THEN "warning"
    ELSE IF \/ contains(to_lowercase(trimmed), "error")
            \/ contains(to_lowercase(trimmed), "failed")
            \/ contains(trimmed, CrossMark)
            \/ contains(trimmed, "FAIL")
    THEN "error"
    ELSE "plain"

\* the class of a trimmed line by its text alone
text_class(trimmed) ==
    IF \/ contains(to_lowercase(trimmed), "error")
       \/ contains(to_lowercase(trimmed), "failed")
       \/ contains(trimmed, CrossMark)
       \/ contains(trimmed, "FAIL")
    THEN "error"
    ELSE IF contains(to_lowercase(trimmed), "warn") THEN "warning"
    ELSE "plain"

TextClass == [l \in LogLines |-> text_class(Trimmed[l])]

line_class_text_first(line_num, line, matched) ==
    IF TextClass[line] # "plain" THEN TextClass[line]
    ELSE IF vec_contains(matched, line_num) THEN "matched" ELSE "plain"

\* the style of one line of the last-50 window
line_class(line_num, line, matched) ==
    IF vec_contains(matched, line_num) THEN "matched" ELSE TextClass[line]

\* the printed entries of one match: the match line, then its suggestion
\* the matched line printed as it stands in the log
match_items_untrimmed(e) ==
    LET sug == suggestion(e.category, e.line)
    IN  <<[kind |-> "match", category |-> e.category, line_num |-> e.line_num,
           text |-> e.line]>>
        \o (IF sug = None THEN <<>>
            ELSE <<[kind |-> "suggestion", text |-> sug[1]]>>)

match_items(e) ==
    LET sug == suggestion(e.category, e.line)
    IN  <<[kind |-> "match", category |-> e.category, line_num |-> e.line_num,
           text |-> Trimmed[e.line]]>>
        \o (IF sug = None THEN <<>>
            ELSE <<[kind |-> "suggestion", text |-> sug[1]]>>)

RECURSIVE summary_items(_)
summary_items(es) ==
    IF es = <<>> THEN <<>>
    ELSE match_items(es[1]) \o summary_items(SubSeq(es, 2, Len(es)))

window_items_own_index(ls, matched) ==
    LET start == window_start(Len(ls), show_lines)
        shown == skip(ls, start)
    IN  [i \in 1..Len(shown) |->
            [kind |-> "window_line", line_num |-> (i - 1) + 1,
             class |-> line_class((i - 1) + 1, shown[i], matched),
             text |-> Trimmed[shown[i]]]]

\* the printed lines of the last-50 window
window_items(ls, matched) ==
    LET start == window_start(Len(ls), show_lines)
        shown == skip(ls, start)
    IN  [i \in 1..Len(shown) |->
            [kind |-> "window_line", line_num |-> start + (i - 1) + 1,
             class |-> line_class(start + (i - 1) + 1, shown[i], matched),
             text |-> Trimmed[shown[i]]]]

hint_items ==
    << [kind |-> "hints_label"],
       [kind |-> "hint", text |-> "Use --full to see complete logs"],
       [kind |-> "hint", text |-> "Use --tail 100 to see more context"],
       [kind |-> "hint", text |-> "Full logs saved at: auto_save_path"],
       [kind |-> "hint",
        text |-> "For AI: If error not found above, rerun with --full flag"] >>

(***************************************************************************)
(* Actions                                                                 *)
(***************************************************************************)
\* main.rs 454-498: the optional filter and the "Total" line
ApplyFilter ==
    /\ pc = "fetched"
    /\ LET filtered == join(SelectSeq(lines(clean_logs),
                                      LAMBDA l : contains(l, filter[1])))
           result ==
               IF filter = None THEN clean_logs
               ELSE IF is_empty(filtered) THEN clean_logs
               ELSE filtered
           notice ==
               IF filter = None THEN <<>>
               ELSE IF is_empty(filtered)
               THEN <<[kind |-> "filter_none", text |-> filter[1]]>>
               ELSE <<[kind |-> "filter_count", text |-> filter[1],
                       n |-> Len(lines(filtered)),
                       of |-> Len(lines(clean_logs))]>>
       IN  /\ filtered_logs' = result
           /\ out' = out \o notice
                         \o <<[kind |-> "total", n |-> Len(lines(result))]>>
    /\ pc' = "filtered"
    /\ UNCHANGED <<inputs, actions, run, scan>>

\* main.rs 500, 507, 519: if full_logs .. else if let Some(n) = tail_lines .. else
mode_tail_first(full, tail) ==
    IF tail # None THEN "tail" ELSE IF full THEN "full" ELSE "default"

disclosure_mode(full, tail) ==
    IF full THEN "full" ELSE IF tail # None THEN "tail" ELSE "default"

ShowFull_trimmed ==
    /\ pc = "filtered"
    /\ disclosure_mode(full_logs, tail_lines) = "full"
    /\ out' = out \o <<[kind |-> "full_label"],
                       [kind |-> "full_body",
                        body |-> [i \in 1..Len(filtered_logs) |->
                                     Trimmed[filtered_logs[i]]]]>>
    /\ pc' = "done"
    /\ UNCHANGED <<inputs, actions, run, filtered_logs, scan>>

\* main.rs 500-506: the whole body, verbatim
ShowFull ==
    /\ pc = "filtered"
    /\ disclosure_mode(full_logs, tail_lines) = "full"
    /\ out' = out \o <<[kind |-> "full_label"],
                       [kind |-> "full_body", body |-> filtered_logs]>>
    /\ pc' = "done"
    /\ UNCHANGED <<inputs, actions, run, filtered_logs, scan>>

\* main.rs 507-518: the last n lines
ShowTail ==
    /\ pc = "filtered"
    /\ disclosure_mode(full_logs, tail_lines) = "tail"
    /\ LET n     == tail_lines[1]
           ls    == lines(filtered_logs)
           start == window_start(Len(ls), n)
           shown == skip(ls, start)
       IN  out' = out \o <<[kind |-> "tail_label", n |-> n]>>
                      \o [i \in 1..Len(shown) |->
                             [kind |-> "tail_line", text |-> shown[i]]]
    /\ pc' = "done"
    /\ UNCHANGED <<inputs, actions, run, filtered_logs, scan>>

\* the two vectors declared once, outside the loop over the failed actions
StartDetection_keeps_vectors ==
    /\ pc = "filtered"
    /\ disclosure_mode(full_logs, tail_lines) = "default"
    /\ out' = out \o <<[kind |-> "smart_label"]>>
    /\ found_errors' = found_errors
    /\ error_line_numbers' = error_line_numbers
    /\ pattern_idx' = 1
    /\ line_idx' = 0
    /\ pc' = "scan"
    /\ UNCHANGED <<inputs, actions, run, filtered_logs>>

\* main.rs 519-571: the default mode starts the smart detection
StartDetection ==
    /\ pc = "filtered"
    /\ disclosure_mode(full_logs, tail_lines) = "default"
    /\ out' = out \o <<[kind |-> "smart_label"]>>
    /\ found_errors' = <<>>
    /\ error_line_numbers' = <<>>
    /\ pattern_idx' = 1
    /\ line_idx' = 0
    /\ pc' = "scan"
    /\ UNCHANGED <<inputs, actions, run, filtered_logs>>

inner_break_late(found) == Len(found) > MatchCap
outer_break_never(found) == FALSE

\* the break conditions of the inner (main.rs 584) and of the outer loop (589)
inner_break(found) == Len(found) >= MatchCap
outer_break(found) == Len(found) >= MatchCap

\* the state of the two loops
ScanState(k, i, found, nums, done) ==
    [pattern_idx |-> k, line_idx |-> i, found_errors |-> found,
     error_line_numbers |-> nums, done |-> done]

InitialScan == ScanState(1, 0, <<>>, <<>>, FALSE)

\* after the inner loop has ended (main.rs 589-592): break, next pattern or end
after_lines(st) ==
    IF outer_break(st.found_errors) \/ st.pattern_idx = NumPatterns
    THEN [st EXCEPT !.done = TRUE]
    ELSE [st EXCEPT !.pattern_idx = @ + 1, !.line_idx = 0]

\* the loops nested the other way round: lines outside, patterns inside
scan_step_lines_outer(ls, st) ==
    LET o    == st.line_idx + 1
        hits == IF o > Len(ls) THEN {}
                ELSE {k \in st.pattern_idx..NumPatterns : line_matches(k, ls[o])}
    IN  IF hits # {}
        THEN LET k      == CHOOSE k \in hits : \A h \in hits : k <= h
                 pushed ==
                     [st EXCEPT
                        !.found_errors =
                            Append(@, [category |-> error_patterns[k].category,
                                       line |-> ls[o], line_num |-> o]),
                        !.error_line_numbers = Append(@, o),
                        !.pattern_idx = k + 1]
             IN  IF Len(pushed.found_errors) >= MatchCap
                 THEN [pushed EXCEPT !.done = TRUE, !.pattern_idx = k]
                 ELSE pushed
        ELSE IF o >= Len(ls)
        THEN [st EXCEPT !.done = TRUE, !.pattern_idx = NumPatterns]
        ELSE [st EXCEPT !.line_idx = o, !.pattern_idx = 1]

\* a line recorded under one signature is not recorded under a later one
scan_step_one_match_per_line(ls, st) ==
    LET hits == {j \in (st.line_idx + 1)..Len(ls) :
                     /\ line_matches(st.pattern_idx, ls[j])
                     /\ ~vec_contains(st.error_line_numbers, j)}
    IN  IF hits # {}
        THEN LET j      == CHOOSE j \in hits : \A h \in hits : j <= h
                 pushed ==
                     [st EXCEPT
                        !.found_errors =
                            Append(@, [category |->
                                           error_patterns[st.pattern_idx].category,
                                       line |-> ls[j],
                                       line_num |-> (j - 1) + 1]),
                        !.error_line_numbers = Append(@, (j - 1) + 1),
                        !.line_idx = j]
             IN  IF Len(pushed.found_errors) >= MatchCap
                 THEN [pushed EXCEPT !.done = TRUE]
                 ELSE pushed
        ELSE IF Len(st.found_errors) >= MatchCap \/ st.pattern_idx = NumPatterns
        THEN [st EXCEPT !.done = TRUE, !.line_idx = Len(ls)]
        ELSE [st EXCEPT !.pattern_idx = @ + 1, !.line_idx = 0]

\* the match recorded with the trimmed text that is printed for it
scan_step_trimmed_text(ls, st) ==
    LET hits == {j \in (st.line_idx + 1)..Len(ls) :
                     line_matches(st.pattern_idx, ls[j])}
    IN  IF hits # {}
        THEN LET j      == CHOOSE j \in hits : \A h \in hits : j <= h
                 pushed ==
                     [st EXCEPT
                        !.found_errors =
                            Append(@, [category |->
                                           error_patterns[st.pattern_idx].category,
                                       line |-> Trimmed[ls[j]],
                                       line_num |-> (j - 1) + 1]),
                        !.error_line_numbers = Append(@, (j - 1) + 1),
                        !.line_idx = j]
             IN  IF Len(pushed.found_errors) >= MatchCap
                 THEN [pushed EXCEPT !.done = TRUE]
                 ELSE pushed
        ELSE IF Len(st.found_errors) >= MatchCap \/ st.pattern_idx = NumPatterns
        THEN [st EXCEPT !.done = TRUE, !.line_idx = Len(ls)]
        ELSE [st EXCEPT !.pattern_idx = @ + 1, !.line_idx = 0]

\* the line numbers pushed as the enumerate index, without the + 1
scan_step_numbers_zero_based(ls, st) ==
    LET hits == {j \in (st.line_idx + 1)..Len(ls) :
                     line_matches(st.pattern_idx, ls[j])}
    IN  IF hits # {}
        THEN LET j      == CHOOSE j \in hits : \A h \in hits : j <= h
                 pushed ==
                     [st EXCEPT
                        !.found_errors =
                            Append(@, [category |->
                                           error_patterns[st.pattern_idx].category,
                                       line |-> ls[j],
                                       line_num |-> (j - 1) + 1]),
                        !.error_line_numbers = Append(@, j - 1),
                        !.line_idx = j]
             IN  IF Len(pushed.found_errors) >= MatchCap
                 THEN [pushed EXCEPT !.done = TRUE]
                 ELSE pushed
        ELSE IF Len(st.found_errors) >= MatchCap \/ st.pattern_idx = NumPatterns
        THEN [st EXCEPT !.done = TRUE, !.line_idx = Len(ls)]
        ELSE [st EXCEPT !.pattern_idx = @ + 1, !.line_idx = 0]

\* main.rs 572-592: the inner loop runs on to the next line the current
\* pattern matches and records it; when no such line is left it runs to its
\* end.  The check that follows the inner loop belongs to the same step.
scan_step(ls, st) ==
    LET hits == {j \in (st.line_idx + 1)..Len(ls) :
                     line_matches(st.pattern_idx, ls[j])}
    IN  IF hits # {}
        THEN LET j      == CHOOSE j \in hits : \A h \in hits : j <= h
                 pushed ==
                     [st EXCEPT
                        !.found_errors =
                            Append(@, [category |->
                                           error_patterns[st.pattern_idx].category,
                                       line |-> ls[j],
                                       line_num |-> (j - 1) + 1]),
                        !.error_line_numbers = Append(@, (j - 1) + 1),
                        !.line_idx = j]
             IN  IF inner_break(pushed.found_errors)
                 THEN after_lines(pushed)
                 ELSE pushed
        ELSE after_lines([st EXCEPT !.line_idx = Len(ls)])

\* the two loops from a given state to their end
RECURSIVE scan_from(_, _)
scan_from(ls, st) == IF st.done THEN st ELSE scan_from(ls, scan_step(ls, st))

\* the matches of a whole scan of the lines ls
scan_all(ls) == scan_from(ls, InitialScan).found_errors

ScanLines ==
    /\ pc = "scan"
    /\ ~(line_idx = 0 /\ pattern_idx = malformed)
    /\ LET st == scan_step(lines(filtered_logs),
                           ScanState(pattern_idx, line_idx, found_errors,
                                     error_line_numbers, FALSE))
       IN  /\ pattern_idx' = st.pattern_idx
           /\ line_idx' = st.line_idx
           /\ found_errors' = st.found_errors
           /\ error_line_numbers' = st.error_line_numbers
           /\ pc' = IF st.done THEN "summary" ELSE "scan"
    /\ UNCHANGED <<inputs, actions, run, filtered_logs, out>>

\* the notice taken for the end of the analysis of the log
PrintSummary_stops_without_matches ==
    /\ pc = "summary"
    /\ out' = out \o
           (IF found_errors # <<>>
            THEN <<[kind |-> "found_count", n |-> Len(found_errors)]>>
                 \o summary_items(take(found_errors, MatchCap))
            ELSE <<[kind |-> "no_patterns"]>>)
    /\ pc' = IF found_errors # <<>> THEN "window" ELSE "done"
    /\ UNCHANGED <<inputs, actions, run, filtered_logs, scan>>

\* main.rs 594-651: the matches with their suggestions, or the notice
PrintSummary ==
    /\ pc = "summary"
    /\ out' = out \o
           (IF found_errors # <<>>
            THEN <<[kind |-> "found_count", n |-> Len(found_errors)]>>
                 \o summary_items(take(found_errors, MatchCap))
            ELSE <<[kind |-> "no_patterns"]>>)
    /\ pc' = "window"
    /\ UNCHANGED <<inputs, actions, run, filtered_logs, scan>>

\* main.rs 653-703: the last 50 lines, numbered and classified
PrintWindow ==
    /\ pc = "window"
    /\ out' = out \o <<[kind |-> "window_label", n |-> show_lines]>>
                  \o window_items(lines(filtered_logs), error_line_numbers)
    /\ pc' = "hints"
    /\ UNCHANGED <<inputs, actions, run, filtered_logs, scan>>

\* main.rs 705-723: the closing hints
PrintHints ==
    /\ pc = "hints"
    /\ out' = out \o hint_items
    /\ pc' = "done"
    /\ UNCHANGED <<inputs, actions, run, filtered_logs, scan>>

Next ==
    \/ ApplyFilter
    \/ ShowFull
    \/ ShowTail
    \/ StartDetection
    \/ ScanLines
    \/ PrintSummary
    \/ PrintWindow
    \/ PrintHints

Spec == Init /\ [][Next]_vars

(***************************************************************************)
(* A catalogue with a pattern that does not compile                        *)
(***************************************************************************)
\* the shorter of the modelled logs
ShortBodies == {b \in Bodies : Len(b) <= 6}

\* the positions tried for the malformed pattern: early and late in the
\* catalogue
MalformedAt == {2, 13}

InitMalformed ==
    /\ InitRun
    /\ clean_logs \in ShortBodies
    /\ malformed \in MalformedAt

\* main.rs 573: Regex::new(pattern).unwrap() on a pattern that does not
\* compile panics, at the head of that pattern's turn of the outer loop
CompileFails ==
    /\ pc = "scan"
    /\ line_idx = 0
    /\ pattern_idx = malformed
    /\ pc' = "panicked"
    /\ UNCHANGED <<inputs, actions, run, filtered_logs, scan, out>>

NextMalformed ==
    \/ Next
    \/ CompileFails

SpecMalformed == InitMalformed /\ [][NextMalformed]_vars

(***************************************************************************)
(* Any filter text, the empty one included                                 *)
(***************************************************************************)
\* --filter takes any string: "" is a substring of every line
FilterTexts == Filters \cup {""}

InitFilter ==
    /\ pc = "fetched"
    /\ clean_logs \in ShortBodies
    /\ full_logs \in BOOLEAN
    /\ tail_lines \in {None} \cup {Some(n) : n \in TailChoices}
    /\ filter \in {None} \cup {Some(f) : f \in FilterTexts}
    /\ filtered_logs = <<"">>
    /\ pattern_idx = 0
    /\ line_idx = 0
    /\ found_errors = <<>>
    /\ error_line_numbers = <<>>
    /\ out = <<>>
    /\ action_no = 1
    /\ previous = None
    /\ malformed = 0
    /\ InitFetched

SpecFilter == InitFilter /\ [][Next]_vars

(***************************************************************************)
(* The whole run of analyze_build                                          *)
(***************************************************************************)
\* the state at the call of analyze_build, whatever the arguments
InitStart ==
    /\ pc = "start"
    /\ clean_logs = <<"">>
    /\ filtered_logs = <<"">>
    /\ pattern_idx = 0
    /\ line_idx = 0
    /\ found_errors = <<>>
    /\ error_line_numbers = <<>>
    /\ out = <<>>
    /\ action_no = 1
    /\ previous = None
    /\ malformed = 0
    /\ parsed = None
    /\ requests = <<>>
    /\ files = NoFiles
    /\ cursor = <<0, 0>>

\* main.rs 377-382: the header, the URL parsed with ?, the three values
ParseUrl ==
    /\ pc = "start"
    /\ LET res == parse_circleci_url(url)
       IN  /\ parsed' = Some(res)
           /\ pc' = IF res.ok THEN "parsed" ELSE "error"
           /\ out' = out \o <<[kind |-> "header", text |-> "Analyzing CircleCI Build"]>>
                  \o (IF res.ok
                      THEN <<[kind |-> "build_ids", org |-> res.value[1],
                              project |-> res.value[2],
                              build_num |-> res.value[3]]>>
                      ELSE <<>>)
    /\ UNCHANGED <<inputs, actions, filtered_logs, scan, requests, files,
                   cursor>>

\* the URLs tried: a prefix, a host, the VCS part, the organisation, the
\* project and the build number, each present, absent or malformed
UrlParts ==
    [prefix  : {"https://", "http://", "https://app."},
     host    : {"circleci.com", "circleci-com"},
     vcs     : {"/gh/", "/bb/"},
     org     : {"acme", ""},
     project : {"shop", ""},
     number  : {"1234", "", "notanumber", "12a", "12" \o ArabicIndicOne,
                "4294967295", "4294967296", "0007"}]

MakeUrl(p) ==
    p.prefix \o p.host \o p.vcs \o p.org \o "/" \o p.project \o "/" \o p.number

InitUrl ==
    /\ InitStart
    /\ url \in {MakeUrl(p) : p \in UrlParts}
    /\ full_logs = FALSE
    /\ tail_lines = None
    /\ filter = None
    /\ no_fetch = FALSE
    /\ output_file = None
    /\ build = BuildOf(<<>>)

SpecUrl == InitUrl /\ [][ParseUrl]_vars

\* main.rs 407-414, 422-423: the steps with a flagged action, and in them
\* the flagged actions, as positions (step, action) in the order of the loops
to_visit(b) ==
    SelectSeq(positions_from(b.steps, 1),
              LAMBDA p :
                  /\ \E a \in 1..Len(b.steps[p[1]].actions) :
                         unwrap_or(b.steps[p[1]].actions[a].failed, FALSE)
                  /\ unwrap_or(b.steps[p[1]].actions[p[2]].failed, FALSE))

\* position p comes after position q in the order of the loops
after(p, q) == p[1] > q[1] \/ (p[1] = q[1] /\ p[2] > q[2])

\* what is left of the loops once they have been at cur
remaining(b, cur) == SelectSeq(to_visit(b), LAMBDA p : after(p, cur))

ActionAt(b, p) == b.steps[p[1]].actions[p[2]]

\* main.rs 384-418: the client, the one request for the build, its summary.
\* CircleClient::new, the request and the decoding each fail with ?.
GetBuild ==
    /\ pc = "parsed"
    /\ \E outcome \in {"no_client", "failed", "ok"} :
           /\ requests' =
                  IF outcome = "no_client" THEN requests
                  ELSE Append(requests, [kind |-> "get_build",
                                         build_num |-> parsed[1].value[3]])
           /\ pc' = IF outcome = "ok" THEN "loop" ELSE "error"
           /\ out' =
                  IF outcome = "ok"
                  THEN out \o <<[kind |-> "build_summary",
                                 status |-> build.status]>>
                           \o (IF to_visit(build) = <<>>
                               THEN <<[kind |-> "no_failed_steps"]>>
                               ELSE <<[kind |-> "failed_steps_header"]>>)
                  ELSE out
    /\ UNCHANGED <<inputs, actions, filtered_logs, scan, parsed, files,
                   cursor>>

\* main.rs 420-425: the loops reach the next flagged action and print its
\* name, after the name of its step when the step is entered
VisitAction ==
    /\ pc = "loop"
    /\ remaining(build, cursor) # <<>>
    /\ LET p == remaining(build, cursor)[1]
       IN  /\ cursor' = p
           /\ out' = out
                  \o (IF p[1] # cursor[1]
                      THEN <<[kind |-> "step", name |-> build.steps[p[1]].name]>>
                      ELSE <<>>)
                  \o <<[kind |-> "action", name |-> ActionAt(build, p).name]>>
    /\ pc' = "action"
    /\ UNCHANGED <<inputs, actions, filtered_logs, scan, parsed, requests,
                   files>>

\* main.rs 427: an action without output_url is passed over
NoOutputUrl ==
    /\ pc = "action"
    /\ ActionAt(build, cursor).output_url = None
    /\ pc' = "loop"
    /\ UNCHANGED <<inputs, actions, filtered_logs, scan, run, out>>

\* main.rs 728-732: with --no-fetch the notice and the URL
SkipFetch ==
    /\ pc = "action"
    /\ ActionAt(build, cursor).output_url # None
    /\ no_fetch
    /\ out' = out \o <<[kind |-> "skip_notice"],
                       [kind |-> "log_url",
                        url |-> ActionAt(build, cursor).output_url[1]]>>
    /\ pc' = "loop"
    /\ UNCHANGED <<inputs, actions, filtered_logs, scan, run>>

\* the log requested whatever --no-fetch says
GetLogs_ignores_no_fetch ==
    /\ pc = "action"
    /\ ActionAt(build, cursor).output_url # None
    /\ LET output_url == ActionAt(build, cursor).output_url[1]
       IN  \E ok \in BOOLEAN :
               /\ requests' = Append(requests, [kind |-> "get_logs",
                                                url |-> output_url])
               /\ clean_logs' =
                      IF ok THEN strip_ansi(server_logs[output_url])
                      ELSE clean_logs
               /\ out' = out \o <<[kind |-> "fetching"]>>
                             \o (IF ok THEN <<>>
                                 ELSE <<[kind |-> "fetch_failed"]>>)
               /\ pc' = IF ok THEN "save" ELSE "loop"
    /\ UNCHANGED <<full_logs, tail_lines, filter, malformed, url, no_fetch,
                   output_file, build, actions, filtered_logs, scan, parsed,
                   files, cursor>>

\* the request sent again after a failure, once
GetLogs_retries ==
    /\ pc = "action"
    /\ ActionAt(build, cursor).output_url # None
    /\ ~no_fetch
    /\ LET output_url == ActionAt(build, cursor).output_url[1]
           request    == [kind |-> "get_logs", url |-> output_url]
       IN  \E ok \in BOOLEAN :
               /\ requests' = IF ok THEN Append(requests, request)
                              ELSE Append(Append(requests, request), request)
               /\ clean_logs' =
                      IF ok THEN strip_ansi(server_logs[output_url])
                      ELSE clean_logs
               /\ out' = out \o <<[kind |-> "fetching"]>>
                             \o (IF ok THEN <<>>
                                 ELSE <<[kind |-> "fetch_failed"]>>)
               /\ pc' = IF ok THEN "save" ELSE "loop"
    /\ UNCHANGED <<full_logs, tail_lines, filter, malformed, url, no_fetch,
                   output_file, build, actions, filtered_logs, scan, parsed,
                   files, cursor>>

\* a failed fetch ends the run, like a failed write
GetLogs_fatal ==
    /\ pc = "action"
    /\ ActionAt(build, cursor).output_url # None
    /\ ~no_fetch
    /\ LET output_url == ActionAt(build, cursor).output_url[1]
       IN  \E ok \in BOOLEAN :
               /\ requests' = Append(requests, [kind |-> "get_logs",
                                                url |-> output_url])
               /\ clean_logs' =
                      IF ok THEN strip_ansi(server_logs[output_url])
                      ELSE clean_logs
               /\ out' = out \o <<[kind |-> "fetching"]>>
                             \o (IF ok THEN <<>>
                                 ELSE <<[kind |-> "fetch_failed"]>>)
               /\ pc' = IF ok THEN "save" ELSE "error"
    /\ UNCHANGED <<full_logs, tail_lines, filter, malformed, url, no_fetch,
                   output_file, build, actions, filtered_logs, scan, parsed,
                   files, cursor>>

\* main.rs 428-434, 726: the one request for the log of the action; the
\* colour codes are stripped from what comes back, a failure is printed and
\* the loops go on
GetLogs ==
    /\ pc = "action"
    /\ ActionAt(build, cursor).output_url # None
    /\ ~no_fetch
    /\ LET output_url == ActionAt(build, cursor).output_url[1]
       IN  \E ok \in BOOLEAN :
               /\ requests' = Append(requests, [kind |-> "get_logs",
                                                url |-> output_url])
               /\ clean_logs' =
                      IF ok THEN strip_ansi(server_logs[output_url])
                      ELSE clean_logs
               /\ out' = out \o <<[kind |-> "fetching"]>>
                             \o (IF ok THEN <<>>
                                 ELSE <<[kind |-> "fetch_failed"]>>)
               /\ pc' = IF ok THEN "save" ELSE "loop"
    /\ UNCHANGED <<full_logs, tail_lines, filter, malformed, url, no_fetch,
                   output_file, build, actions, filtered_logs, scan, parsed,
                   files, cursor>>

\* the cache file written with what is rendered, after the filter
saved_content_filtered(clean, flt) ==
    IF flt = None THEN clean
    ELSE join(SelectSeq(lines(clean), LAMBDA l : contains(l, flt[1])))

\* main.rs 438, 447: what goes into the files: clean_logs, whole
saved_content(clean, flt) == clean

\* a cache file of its own for every action
cache_path_per_action(build_num, cur) ==
    "/tmp/cdb-" \o build_num \o "-" \o to_string(cur[1]) \o "-"
    \o to_string(cur[2]) \o ".log"

\* main.rs 437: the cache path of the run, whatever the action
cache_path(build_num, cur) == auto_save_path(build_num)

\* main.rs 436-452: the cache file, then the file of --output; each write
\* ends the run with ? when it fails
SaveLogs ==
    /\ pc = "save"
    /\ LET path    == cache_path(parsed[1].value[3], cursor)
           content == saved_content(clean_logs, filter)
           cached  == fs_write(files, path, content)
       IN  \E outcome \in {"ok", "cache_fails", "output_fails"} :
               /\ outcome = "output_fails" => output_file # None
               /\ files' =
                      CASE outcome = "cache_fails" -> files
                        [] outcome = "output_fails" -> cached
                        [] outcome = "ok" ->
                               IF output_file = None THEN cached
                               ELSE fs_write(cached, output_file[1], content)
               /\ out' = out
                      \o (IF outcome = "cache_fails" THEN <<>>
                          ELSE <<[kind |-> "auto_saved", path |-> path]>>)
                      \o (IF outcome = "ok" /\ output_file # None
                          THEN <<[kind |-> "also_saved",
                                  path |-> output_file[1]]>>
                          ELSE <<>>)
               /\ pc' = IF outcome = "ok" THEN "fetched" ELSE "error"
    /\ UNCHANGED <<inputs, actions, filtered_logs, scan, parsed, requests,
                   cursor>>

\* main.rs 424: the log of the action is handled, the loops go on
EndAction ==
    /\ pc = "done"
    /\ pc' = "loop"
    /\ UNCHANGED <<inputs, actions, filtered_logs, scan, run, out>>

RECURSIVE sum_millis(_)
sum_millis(acts) ==
    IF acts = <<>> THEN 0
    ELSE unwrap_or(acts[1].run_time_millis, 0)
         + sum_millis(SubSeq(acts, 2, Len(acts)))

\* Vec::sort_by(|a, b| b.1.cmp(&a.1)): stable, longest first
RECURSIVE sort_longest_first(_)
sort_longest_first(ts) ==
    IF ts = <<>> THEN <<>>
    ELSE LET rest == sort_longest_first(SubSeq(ts, 2, Len(ts)))
             k    == Cardinality({i \in 1..Len(rest) : rest[i][2] > ts[1][2]})
         IN  SubSeq(rest, 1, k) \o <<ts[1]>> \o SubSeq(rest, k + 1, Len(rest))

\* main.rs 744-753: the steps that took time, with their times
step_timings(b) ==
    SelectSeq([i \in 1..Len(b.steps) |->
                  <<b.steps[i].name, sum_millis(b.steps[i].actions)>>],
              LAMBDA t : t[2] > 0)

\* main.rs 741-802: the timing analysis and the quick actions, then Ok(()).
\* The percentages, computed in floating point, and the bottleneck line
\* that depends on them are not part of the printed items.
FinishRun ==
    /\ pc = "loop"
    /\ remaining(build, cursor) = <<>>
    /\ LET timings == sort_longest_first(step_timings(build))
           slowest == take(timings, 5)
           total   == sum_millis([i \in 1..Len(timings) |->
                                     [run_time_millis |-> Some(timings[i][2])]])
       IN  out' = out \o <<[kind |-> "timing_header"]>>
                  \o (IF timings # <<>>
                      THEN <<[kind |-> "timing_total",
                              text |-> format_duration(total)]>>
                           \o [i \in 1..Len(slowest) |->
                                  [kind |-> "slow_step",
                                   name |-> slowest[i][1],
                                   text |-> format_duration(slowest[i][2])]]
                      ELSE <<[kind |-> "timing_none"]>>)
                  \o <<[kind |-> "quick_actions"]>>
    /\ pc' = "ok"
    /\ UNCHANGED <<inputs, actions, filtered_logs, scan, run>>

\* the command lines tried
RunFlags ==
    { [full |-> FALSE, tail |-> None,    filter |-> None,
       no_fetch |-> FALSE, output |-> None],
      [full |-> TRUE,  tail |-> None,    filter |-> None,
       no_fetch |-> FALSE, output |-> None],
      [full |-> FALSE, tail |-> Some(2), filter |-> Some("failed"),
       no_fetch |-> FALSE, output |-> Some("out.log")],
      [full |-> FALSE, tail |-> None,    filter |-> Some("cannot"),
       no_fetch |-> FALSE, output |-> Some("out.log")],
      [full |-> FALSE, tail |-> None,    filter |-> None,
       no_fetch |-> TRUE,  output |-> None],
      [full |-> TRUE,  tail |-> Some(2), filter |-> Some("failed"),
       no_fetch |-> TRUE,  output |-> Some("out.log")] }

InitBuild ==
    /\ InitStart
    /\ url \in {GoodUrl, BadUrl}
    /\ build \in Builds
    /\ \E f \in RunFlags :
           /\ full_logs = f.full
           /\ tail_lines = f.tail
           /\ filter = f.filter
           /\ no_fetch = f.no_fetch
           /\ output_file = f.output
    /\ url = BadUrl => build = BuildOf(<<>>) /\ ~full_logs /\ filter = None
                       /\ ~no_fetch

NextBuild ==
    \/ ParseUrl
    \/ GetBuild
    \/ VisitAction
    \/ NoOutputUrl
    \/ SkipFetch
    \/ GetLogs
    \/ SaveLogs
    \/ Next
    \/ EndAction
    \/ FinishRun

SpecBuild == InitBuild /\ [][NextBuild]_vars

\* the millisecond counts tried: the values around a second, a minute and an
\* hour, the largest a 32-bit integer holds, and a spread of others
Millis ==
    { 0, 1, 999, 1000, 1001, 45000, 59999, 60000, 60001, 61000, 119999,
      120000, 150000, 3599999, 3600000, 86399999, 2147483647 }
    \cup {k * 7919 : k \in 1..100}

InitDuration ==
    /\ InitStart
    /\ url = GoodUrl
    /\ full_logs = FALSE
    /\ tail_lines = None
    /\ filter = None
    /\ no_fetch = FALSE
    /\ output_file = None
    /\ build = BuildOf(<<>>)

\* lib.rs 470-479: format_duration applied to a millisecond count
FormatDuration ==
    /\ pc = "start"
    /\ \E millis \in Millis :
           out' = <<[kind |-> "duration", millis |-> millis,
                     text |-> format_duration(millis)]>>
    /\ pc' = "formatted"
    /\ UNCHANGED <<inputs, actions, run, filtered_logs, scan>>

SpecDuration == InitDuration /\ [][FormatDuration]_vars

(***************************************************************************)
(* Several failed actions in one build                                     *)
(***************************************************************************)
MaxActions == 2

\* a log a later failed action can have instead of the same one again
OtherLog == <<ResolverLine, MissingModuleLine>>

InitRescan ==
    /\ Init
    /\ clean_logs \in ShortBodies

\* main.rs 421-424: the loop goes on to the next failed action and its log.
\* The locals of the turn before are out of scope; the model leaves their
\* last values, which the next turn's let bindings replace.
NextFailedAction ==
    /\ pc = "done"
    /\ action_no < MaxActions
    /\ action_no' = action_no + 1
    /\ previous' = Append(previous, [logs |-> filtered_logs,
                                     found_errors |-> found_errors,
                                     error_line_numbers |-> error_line_numbers])
    /\ clean_logs' \in {clean_logs, OtherLog}
    /\ pc' = "fetched"
    /\ UNCHANGED <<full_logs, tail_lines, filter, malformed, filtered_logs,
                   scan, out, url, no_fetch, output_file, build, run>>

NextRescan ==
    \/ Next
    \/ NextFailedAction

SpecRescan == InitRescan /\ [][NextRescan]_vars

(***************************************************************************)
(* Properties                                                              *)
(***************************************************************************)
\* the lines that are scanned and rendered, and their number
scanned == lines(filtered_logs)
L       == Len(scanned)

DefaultMode == ~full_logs /\ tail_lines = None
ScanOver    == DefaultMode /\ pc \in {"summary", "window", "hints", "done"}

Min(a, b) == IF a < b THEN a ELSE b

\* the printed items of one kind, in order
Items(kind) == SelectSeq(out, LAMBDA it : it.kind = kind)

\* the catalogue order as the specification lists it
CatalogueOrder ==
    << "Module Resolution", "Missing Module", "File Not Found", "Syntax Error",
       "Type Error", "Reference Error", "Segfault", "Out of Memory",
       "Build Failure", "Compilation Error", "TypeScript Error", "Lint Error",
       "Test Failure", "Assertion Failure", "Test Suite Failure", "NPM Error",
       "Yarn Error", "Missing Dependency", "Non-zero Exit", "Command Failure" >>

Priority(category) ==
    CHOOSE k \in 1..Len(CatalogueOrder) : CatalogueOrder[k] = category

\* the matches of the k-th pattern over all lines, in line order
MatchesOf(ls, k) ==
    LET idx == SelectSeq([j \in 1..Len(ls) |-> j],
                         LAMBDA j : line_matches(k, ls[j]))
    IN  [n \in 1..Len(idx) |->
            [category |-> error_patterns[k].category, line |-> ls[idx[n]],
             line_num |-> idx[n]]]

\* the patterns that match some line of ls
PatternsHit(ls) ==
    LET present == {ls[j] : j \in 1..Len(ls)}
    IN  {k \in 1..NumPatterns : \E l \in present : line_matches(k, l)}

RECURSIVE EnumerationFrom(_, _, _)
EnumerationFrom(ls, k, hit) ==
    IF k > NumPatterns THEN <<>>
    ELSE (IF k \in hit THEN MatchesOf(ls, k) ELSE <<>>)
             \o EnumerationFrom(ls, k + 1, hit)

\* the uncapped enumeration of the matches of the patterns k..20: catalogue
\* order outside, line order inside
Enumeration(ls, k) == EnumerationFrom(ls, k, PatternsHit(ls))

\* C1: in every state of the scan at most 5 matches are recorded and every
\* recorded line number n satisfies 1 <= n <= L, L the number of scanned lines.
C1_CapAndLineRange ==
    /\ Len(found_errors) <= 5
    /\ \A i \in 1..Len(found_errors) :
           /\ 1 <= found_errors[i].line_num
           /\ found_errors[i].line_num <= L

\* the cap is reached while the pattern at hand matches more than 5 lines of
\* a log of more than 50 lines
C1_Witness ==
    /\ pc = "summary"
    /\ Len(found_errors) = 5
    /\ Len(MatchesOf(scanned, pattern_idx)) > 5
    /\ found_errors[5].line_num > 5
    /\ L > 50

\* C2: the result is the first 5 elements (or all) of the uncapped enumeration;
\* during the scan it is a prefix of it; a pattern contributes only if the
\* earlier patterns match fewer than 5 lines; with 5 matches recorded the loops
\* stand at the 5th match and examine nothing further.
C2_FirstFiveOfEnumeration ==
    pc \in {"scan", "summary"} =>
        LET all == Enumeration(scanned, 1)
            n   == Len(found_errors)
        IN  /\ n <= Len(all)
            /\ found_errors = SubSeq(all, 1, n)
            /\ pc = "summary" => n = Min(5, Len(all))
            /\ \A k \in {PatternIndex(found_errors[i].category) : i \in 1..n} :
                   Len(all) - Len(Enumeration(scanned, k)) < 5
            /\ n = 5 =>
                   /\ pc = "summary"
                   /\ pattern_idx = PatternIndex(found_errors[5].category)
                   /\ line_idx = found_errors[5].line_num

\* an early pattern exhausts the cap and a later pattern that matches lines
\* of the log is never tried
C2_Witness ==
    /\ pc = "summary"
    /\ Len(found_errors) = 5
    /\ \E k \in (pattern_idx + 1)..NumPatterns : MatchesOf(scanned, k) # <<>>
    /\ \E j \in (line_idx + 1)..L : line_matches(pattern_idx, scanned[j])

\* C3: for result positions i < j, match i has a strictly earlier category in
\* the 20-entry catalogue, or the same category and a strictly smaller line.
C3_CatalogueThenLineOrder ==
    \A i, j \in 1..Len(found_errors) :
        i < j =>
            LET a == found_errors[i]
                b == found_errors[j]
            IN  \/ Priority(a.category) < Priority(b.category)
                \/ /\ a.category = b.category
                   /\ a.line_num < b.line_num

\* two lines of one pattern, then a later pattern on a line that matched
\* an earlier pattern too
C3_Witness ==
    /\ pc = "summary"
    /\ Len(found_errors) >= 4
    /\ found_errors[1].category = found_errors[2].category
    /\ \E i, j \in 1..Len(found_errors) :
           /\ i < j
           /\ found_errors[i].category # found_errors[j].category
           /\ found_errors[i].line_num = found_errors[j].line_num

Categories(found) == [i \in 1..Len(found) |-> found[i].category]

Swap(ls, i) == [ls EXCEPT ![i] = ls[i + 1], ![i + 1] = ls[i]]
Reverse(ls) == [i \in 1..Len(ls) |-> ls[Len(ls) + 1 - i]]

\* logs with the same lines in another order: every exchange of two
\* neighbouring lines (these generate all orders) and the reversed log
Rearrangements(ls) ==
    {Swap(ls, i) : i \in {i \in 1..(Len(ls) - 1) : ls[i] # ls[i + 1]}}
        \cup {Reverse(ls)}

\* C4: a log with the same lines in another order yields a result of the same
\* length with the same categories position by position.
C4_OrderOfLinesKeepsCategories ==
    pc = "summary" =>
        \A other \in Rearrangements(scanned) :
            Categories(scan_all(other)) = Categories(found_errors)

\* a rearranged log gives the same categories with other line numbers
C4_Witness ==
    /\ pc = "summary"
    /\ Len(found_errors) = 5
    /\ found_errors[1].category # found_errors[5].category
    /\ \E other \in Rearrangements(scanned) :
           /\ scan_all(other) # found_errors
           /\ Categories(scan_all(other)) = Categories(found_errors)

\* the printed suggestion of install kind
InstallHint == "Run 'npm install' or check package.json dependencies"

\* out holds the entry of the match (category, n) and, right after it, text
PrintedWithSuggestion(category, n, text) ==
    \E p \in 1..(Len(out) - 1) :
        /\ out[p].kind = "match"
        /\ out[p].category = category
        /\ out[p].line_num = n
        /\ out[p + 1].kind = "suggestion"
        /\ out[p + 1].text = text

HasMatch(category, n) ==
    \E i \in 1..Len(found_errors) :
        /\ found_errors[i].category = category
        /\ found_errors[i].line_num = n

\* C5 as stated: whenever line k of the scanned log is
\* "Error: cannot find module 'foo'", the result holds a Missing Module match
\* with line number k and the summary prints the install suggestion for it.
C5_MissingModuleAlwaysReported ==
    ScanOver =>
        \A k \in 1..L :
            scanned[k] = MissingModuleLine =>
                /\ HasMatch("Missing Module", k)
                /\ pc \in {"window", "hints", "done"} =>
                       PrintedWithSuggestion("Missing Module", k, InstallHint)

\* the matches that precede (Missing Module, k) in scan order: every line the
\* Module Resolution pattern matches and every earlier line that
\* "cannot find module" matches
Preceding(ls, k) ==
    Cardinality({j \in 1..Len(ls) : line_matches(1, ls[j])})
        + Cardinality({j \in 1..(k - 1) : line_matches(2, ls[j])})

\* C5 amended: the same, for a line k that fewer than 5 matches precede in
\* scan order.
C5_MissingModuleReportedWithinCap ==
    ScanOver =>
        \A k \in 1..L :
            scanned[k] = MissingModuleLine /\ Preceding(scanned, k) < 5 =>
                /\ HasMatch("Missing Module", k)
                /\ pc \in {"window", "hints", "done"} =>
                       PrintedWithSuggestion("Missing Module", k, InstallHint)

\* the line is reported as the fifth match, after Module Resolution matches
C5_Witness ==
    /\ pc = "done"
    /\ DefaultMode
    /\ Len(found_errors) = 5
    /\ \E k \in 1..L :
           /\ scanned[k] = MissingModuleLine
           /\ Preceding(scanned, k) = 4
           /\ found_errors[1].category = "Module Resolution"
           /\ PrintedWithSuggestion("Missing Module", k, InstallHint)

DetectionKinds ==
    {"smart_label", "found_count", "match", "suggestion", "no_patterns"}
WindowKinds == {"window_label", "window_line"}
HintKinds   == {"hints_label", "hint"}
TailKinds   == {"tail_label", "tail_line"}
FullKinds   == {"full_label", "full_body"}

KindsOf(seq) == {seq[i].kind : i \in 1..Len(seq)}

\* C6: in Full mode the emitted log block is exactly the log body, and no
\* match summary, suggestion, numbered window or closing hint is emitted.
C6_FullIsVerbatim ==
    full_logs =>
        /\ KindsOf(out) \cap
               (DetectionKinds \cup WindowKinds \cup HintKinds \cup TailKinds)
             = {}
        /\ found_errors = <<>>
        /\ pc = "done" =>
               /\ Len(out) >= 2
               /\ out[Len(out) - 1].kind = "full_label"
               /\ out[Len(out)].kind = "full_body"
               /\ out[Len(out)].body = filtered_logs
               /\ filter = None => out[Len(out)].body = clean_logs
               /\ Len(Items("full_body")) = 1

\* a full dump of a log with an indented line that a pattern matches
C6_Witness ==
    /\ pc = "done"
    /\ full_logs
    /\ \E j \in 1..L :
           /\ MatchingPatterns[scanned[j]] # {}
           /\ Trimmed[scanned[j]] # scanned[j]

\* C7: in Tail(n) mode exactly min(n, L) lines are emitted, the last ones of
\* the log in order and unmodified, and no detection output.
C7_TailIsLastLines ==
    ~full_logs /\ tail_lines # None =>
        /\ KindsOf(out) \cap
               (DetectionKinds \cup WindowKinds \cup HintKinds \cup FullKinds)
             = {}
        /\ found_errors = <<>>
        /\ pc = "done" =>
               LET n     == tail_lines[1]
                   shown == Items("tail_line")
                   m     == Min(n, L)
               IN  /\ Len(Items("tail_label")) = 1
                   /\ Len(shown) = m
                   /\ \A i \in 1..m : shown[i].text = scanned[L - m + i]

\* more lines asked for than the log has
C7_Witness ==
    /\ pc = "done"
    /\ ~full_logs
    /\ tail_lines = Some(51)
    /\ L = 50
    /\ Len(Items("tail_line")) = 50

\* C8: in Default mode the window holds the last 50 lines (all when L < 50)
\* in order, the i-th with the number L - min(50, L) + i.
C8_WindowIsLastFifty ==
    DefaultMode /\ pc \in {"hints", "done"} =>
        LET shown == Items("window_line")
            m     == Min(50, L)
        IN  /\ Len(shown) = m
            /\ L >= 50 => Len(shown) = 50
            /\ L < 50 => Len(shown) = L
            /\ \A i \in 1..m :
                   /\ shown[i].line_num = L - m + i
                   /\ shown[i].text = Trimmed[scanned[L - m + i]]

\* a log of more than 50 lines: the window starts after line 1
C8_Witness ==
    /\ pc = "done"
    /\ DefaultMode
    /\ L > 50
    /\ Items("window_line")[1].line_num = L - 49
    /\ \E i \in 1..50 : Items("window_line")[i].text # FillerLine

\* the modes whose blocks have been emitted
RenderedModes ==
    {m \in {"full", "tail", "default"} :
        KindsOf(out) \cap
            (CASE m = "full" -> FullKinds
               [] m = "tail" -> TailKinds
               [] m = "default" ->
                      DetectionKinds \cup WindowKinds \cup HintKinds) # {}}

\* C9: exactly one mode is rendered per log: Full when the full flag is set
\* (also with a tail count), Tail(n) when only a tail count is set, Default
\* otherwise; blocks of two modes are never both emitted.
C9_ExactlyOneMode ==
    LET mode == IF full_logs THEN "full"
                ELSE IF tail_lines # None THEN "tail" ELSE "default"
    IN  /\ RenderedModes \subseteq {mode}
        /\ pc = "done" => RenderedModes = {mode}

\* both flags set
C9_Witness ==
    /\ pc = "done"
    /\ full_logs
    /\ tail_lines # None
    /\ RenderedModes = {"full"}

\* the line numbers of the recorded matches
MatchedNumbers == {found_errors[i].line_num : i \in 1..Len(found_errors)}

\* C10: a window line whose number is a matched line number is classified
\* "matched", whatever its text.
C10_MatchedTakesPrecedence ==
    \A i \in 1..Len(out) :
        out[i].kind = "window_line" /\ out[i].line_num \in MatchedNumbers =>
            out[i].class = "matched"

\* the window holds a matched line with "Error" in it and a matched line
\* whose text alone is plain
C10_Witness ==
    /\ pc = "done"
    /\ \E i, j \in 1..Len(out) :
           /\ out[i].kind = "window_line"
           /\ out[j].kind = "window_line"
           /\ out[i].class = "matched"
           /\ out[j].class = "matched"
           /\ text_class(out[i].text) = "error"
           /\ text_class(out[j].text) = "plain"

\* C11: the matched line numbers handed to the window are the line numbers
\* of the matches, position by position, in every state; a window line is
\* classified "matched" exactly when its number is that of some match.
C11_NumbersMirrorMatches ==
    /\ Len(error_line_numbers) = Len(found_errors)
    /\ \A i \in 1..Len(found_errors) :
           error_line_numbers[i] = found_errors[i].line_num
    /\ \A i \in 1..Len(out) :
           out[i].kind = "window_line" =>
               (out[i].class = "matched" <=> out[i].line_num \in MatchedNumbers)

\* a window with matched and unmatched lines, one line matched twice
C11_Witness ==
    /\ pc = "done"
    /\ \E i, j \in 1..Len(error_line_numbers) :
           i # j /\ error_line_numbers[i] = error_line_numbers[j]
    /\ \E i, j \in 1..Len(out) :
           /\ out[i].kind = "window_line" /\ out[i].class = "matched"
           /\ out[j].kind = "window_line" /\ out[j].class # "matched"

\* C12: with zero matches Default mode prints the no-patterns notice in
\* place of a match list, classifies no window line "matched", and goes on:
\* the window and the closing hints are printed and the analysis ends.
C12_NoMatchesIsNoError ==
    ScanOver /\ found_errors = <<>> =>
        /\ pc # "done" => ENABLED Next
        /\ pc \in {"window", "hints", "done"} =>
               /\ Len(Items("no_patterns")) = 1
               /\ KindsOf(out) \cap {"found_count", "match", "suggestion"} = {}
        /\ pc \in {"hints", "done"} =>
               /\ Len(Items("window_label")) = 1
               /\ Len(Items("window_line")) = Min(50, L)
               /\ \A i \in 1..Len(out) :
                      out[i].kind = "window_line" => out[i].class # "matched"
        /\ pc = "done" =>
               /\ Len(Items("hints_label")) = 1
               /\ out[Len(out)].kind = "hint"

\* a log without any catalogue match but with an error-like line
C12_Witness ==
    /\ pc = "done"
    /\ DefaultMode
    /\ found_errors = <<>>
    /\ L > 50
    /\ \E i \in 1..Len(out) :
           out[i].kind = "window_line" /\ out[i].class = "error"

\* the block a printed item belongs to: 0 the filter notice and the total,
\* 1 the smart error detection, 2 the last-50 window, 3 the closing hints
BlockOf(kind) ==
    CASE kind \in DetectionKinds -> 1
      [] kind \in WindowKinds    -> 2
      [] kind \in HintKinds      -> 3
      [] OTHER                   -> 0

\* the entries the summary is to show for the matches, in scan order
ExpectedEntries ==
    [i \in 1..Len(found_errors) |->
        [kind |-> "match", category |-> found_errors[i].category,
         line_num |-> found_errors[i].line_num,
         text |-> trim(found_errors[i].line)]]

\* C16: in Default mode the detection block, the last-50 window and the
\* closing hints are printed in this order, each exactly once and each led by
\* its label; the detection block holds one entry per match in scan order
\* (category, 1-based line number, trimmed text) or the single notice.
C16_BlocksInFixedOrder ==
    DefaultMode =>
        /\ \A i, j \in 1..Len(out) :
               i < j => BlockOf(out[i].kind) <= BlockOf(out[j].kind)
        /\ \A i \in 2..Len(out) :
               /\ out[i].kind = "smart_label" <=>
                      BlockOf(out[i].kind) = 1 /\ BlockOf(out[i - 1].kind) = 0
               /\ out[i].kind = "window_label" <=>
                      BlockOf(out[i].kind) = 2 /\ BlockOf(out[i - 1].kind) = 1
               /\ out[i].kind = "hints_label" <=>
                      BlockOf(out[i].kind) = 3 /\ BlockOf(out[i - 1].kind) = 2
        /\ pc = "done" =>
               /\ {1, 2, 3} \subseteq {BlockOf(k) : k \in KindsOf(out)}
               /\ Items("match") = ExpectedEntries
               /\ Len(Items("no_patterns")) =
                      (IF found_errors = <<>> THEN 1 ELSE 0)
               /\ Len(Items("found_count")) =
                      (IF found_errors = <<>> THEN 0 ELSE 1)

\* a finished Default run with matches on indented lines
C16_Witness ==
    /\ pc = "done"
    /\ DefaultMode
    /\ Len(found_errors) >= 2
    /\ \E i \in 1..Len(found_errors) :
           trim(found_errors[i].line) # found_errors[i].line
    /\ Len(Items("window_line")) = show_lines

\* C19: every recorded match is sound: its text is the line at its line
\* number in the scanned body, and the pattern of its category matches it.
C19_MatchesAreSound ==
    \A i \in 1..Len(found_errors) :
        LET e == found_errors[i]
        IN  /\ e.line_num \in 1..L
            /\ e.line = scanned[e.line_num]
            /\ \E k \in 1..Len(CatalogueOrder) : CatalogueOrder[k] = e.category
            /\ line_matches(PatternIndex(e.category), e.line)

\* a match of an indented upper-case line, by a lower-case pattern that
\* begins inside the line
C19_Witness ==
    /\ ScanOver
    /\ \E i \in 1..Len(found_errors) :
           /\ found_errors[i].category = "NPM Error"
           /\ found_errors[i].line = "  npm ERR! code ELIFECYCLE"
           /\ found_errors[i].line_num > 1

\* C20: an empty log body is rendered in every mode: Default records no
\* match, prints the notice, a window of zero lines and the hints; Full and
\* Tail print their label and no log line; no state before the end is stuck.
C20_EmptyBodyRendered ==
    is_empty(clean_logs) =>
        /\ pc # "done" => ENABLED Next
        /\ found_errors = <<>>
        /\ pc = "done" /\ DefaultMode =>
               /\ Len(Items("no_patterns")) = 1
               /\ Len(Items("window_label")) = 1
               /\ Items("window_line") = <<>>
               /\ SubSeq(out, Len(out) - Len(hint_items) + 1, Len(out))
                      = hint_items
        /\ pc = "done" /\ full_logs =>
               /\ Len(Items("full_label")) = 1
               /\ \A i \in 1..Len(out) :
                      out[i].kind = "full_body" => lines(out[i].body) = <<>>
        /\ pc = "done" /\ ~full_logs /\ tail_lines # None =>
               /\ Len(Items("tail_label")) = 1
               /\ Items("tail_line") = <<>>

\* an empty body with a filter given, rendered to the end in Default mode
C20_Witness ==
    /\ pc = "done"
    /\ is_empty(clean_logs)
    /\ DefaultMode
    /\ filter # None

\* the texts a window line can show
WindowTexts == {trim(l) : l \in LogLines}

\* what the classification looks for in a text
ErrorLike ==
    [t \in WindowTexts |->
        \/ \E w \in {"error", "failed"} : contains(to_lowercase(t), w)
        \/ \E m \in {CrossMark, "FAIL"} : contains(t, m)]

WarningLike == [t \in WindowTexts |-> contains(to_lowercase(t), "warn")]

\* C15: a window line whose number is not a matched line number is
\* error-like if its trimmed text holds "error" or "failed" in any letter
\* case or a failure marker, otherwise warning-like if it holds "warn" in any
\* letter case, otherwise plain; every window line has one of the four
\* classes.
C15_TextClassPrecedence ==
    \A i \in 1..Len(out) :
        out[i].kind = "window_line" =>
            /\ out[i].class \in {"matched", "error", "warning", "plain"}
            /\ out[i].text \in WindowTexts
            /\ out[i].line_num \notin MatchedNumbers =>
                   out[i].class =
                       IF ErrorLike[out[i].text] THEN "error"
                       ELSE IF WarningLike[out[i].text] THEN "warning"
                       ELSE "plain"

\* an unmatched window line with both "warn" and "error" in it, shown as
\* error-like
C15_Witness ==
    /\ pc = "done"
    /\ \E i \in 1..Len(out) :
           /\ out[i].kind = "window_line"
           /\ out[i].line_num \notin MatchedNumbers
           /\ ErrorLike[out[i].text] /\ WarningLike[out[i].text]
           /\ out[i].class = "error"

\* the hint the summary is to print for a category, File Not Found apart
HintOf(category) ==
    CASE category \in {"Missing Module", "Missing Dependency"} -> InstallHint
      [] category = "TypeScript Error" ->
             "Run 'npm run typecheck' locally to see full type errors"
      [] category = "Lint Error" ->
             "Run 'npm run lint -- --fix' to auto-fix some issues"
      [] category \in {"Test Failure", "Test Suite Failure"} ->
             "Run tests locally with '--verbose' for more details"
      [] category = "Out of Memory" ->
             "Increase Node memory: NODE_OPTIONS='--max-old-space-size=4096'"
      [] category \in {"NPM Error", "Yarn Error"} ->
             "Clear cache (npm cache clean --force) and reinstall"

WithHint ==
    { "File Not Found", "Missing Module", "Missing Dependency",
      "TypeScript Error", "Lint Error", "Test Failure", "Test Suite Failure",
      "Out of Memory", "NPM Error", "Yarn Error" }

WithoutHint ==
    { "Module Resolution", "Syntax Error", "Type Error", "Reference Error",
      "Segfault", "Build Failure", "Compilation Error", "Assertion Failure",
      "Non-zero Exit", "Command Failure" }

\* the printed item after position i is a suggestion
SuggestionAfter(i) == i < Len(out) /\ out[i + 1].kind = "suggestion"

\* C17: a summary entry is followed by a suggestion exactly when its category
\* is one of the ten with a hint, the hint is the one of its category (the
\* same for the two of a pair), the other ten categories print none, and
\* every suggestion follows an entry directly: at most one per match.
C17_SuggestionByCategory ==
    /\ WithHint \cap WithoutHint = {}
    /\ WithHint \cup WithoutHint
           = {CatalogueOrder[k] : k \in 1..Len(CatalogueOrder)}
    /\ \A i \in 1..Len(out) :
           /\ out[i].kind = "match" =>
                  /\ SuggestionAfter(i) <=> out[i].category \in WithHint
                  /\ ~SuggestionAfter(i) <=> out[i].category \in WithoutHint
                  /\ out[i].category \in WithHint \ {"File Not Found"} =>
                         out[i + 1].text = HintOf(out[i].category)
           /\ out[i].kind = "suggestion" => i > 1 /\ out[i - 1].kind = "match"

\* a summary with the two test categories under one hint and an entry of a
\* category without a hint
C17_Witness ==
    /\ pc = "done"
    /\ \E i, j, k \in 1..Len(out) :
           /\ out[i].kind = "match" /\ out[i].category = "Test Failure"
           /\ out[j].kind = "match" /\ out[j].category = "Test Suite Failure"
           /\ SuggestionAfter(i) /\ SuggestionAfter(j)
           /\ out[i + 1].text = out[j + 1].text
           /\ out[k].kind = "match" /\ out[k].category = "Module Resolution"
           /\ ~SuggestionAfter(k)

CaseHint       == "Check file case sensitivity (README.md vs readme.md)"
InstallDepsHint == "Run 'npm install' to ensure dependencies are installed"
VerifyPathHint == "Verify file exists and path is correct"

MentionsReadme ==
    [t \in WindowTexts |-> contains(t, "README") \/ contains(t, "readme")]

MentionsPackageJson == [t \in WindowTexts |-> contains(t, "package.json")]

\* C18: a File Not Found entry is followed by exactly one suggestion: the
\* case-sensitivity hint if the line holds "README" or "readme" as written,
\* otherwise the install hint if it holds "package.json", otherwise the
\* verify-path hint.
C18_FileNotFoundHint ==
    \A i \in 1..Len(out) :
        out[i].kind = "match" /\ out[i].category = "File Not Found" =>
            /\ SuggestionAfter(i)
            /\ ~SuggestionAfter(i + 1)
            /\ out[i + 1].text =
                   IF MentionsReadme[out[i].text] THEN CaseHint
                   ELSE IF MentionsPackageJson[out[i].text]
                   THEN InstallDepsHint
                   ELSE VerifyPathHint

\* a File Not Found line with both "readme" and "package.json" in it, given
\* the case-sensitivity hint
C18_Witness ==
    /\ pc = "done"
    /\ \E i \in 1..Len(out) :
           /\ out[i].kind = "match" /\ out[i].category = "File Not Found"
           /\ MentionsReadme[out[i].text]
           /\ MentionsPackageJson[out[i].text]
           /\ out[i + 1].kind = "suggestion" /\ out[i + 1].text = CaseHint

\* C13: when a later failed action's scan is over a log body an earlier
\* action scanned, its matches and their line numbers are those of the
\* earlier scan, in the same order.
C13_RescanIdentical ==
    ScanOver =>
        \A i \in 1..Len(previous) :
            previous[i].logs = filtered_logs =>
                /\ found_errors = previous[i].found_errors
                /\ error_line_numbers = previous[i].error_line_numbers

\* the second scan of a log whose first scan had recorded matches
C13_Witness ==
    /\ pc = "done"
    /\ DefaultMode
    /\ action_no = 2
    /\ previous[1].logs = filtered_logs
    /\ Len(previous[1].found_errors) >= 2
    /\ found_errors = previous[1].found_errors

MatchPositions(category, n) ==
    {i \in 1..Len(found_errors) :
        found_errors[i].category = category /\ found_errors[i].line_num = n}

\* C25: no two matches of a scan have the same category and line number; a
\* line matched by several signatures is recorded once for each of them when
\* the scan ends below the cap of 5.
C25_OncePerSignature ==
    /\ \A i, j \in 1..Len(found_errors) :
           /\ found_errors[i].category = found_errors[j].category
           /\ found_errors[i].line_num = found_errors[j].line_num
           => i = j
    /\ ScanOver /\ Len(found_errors) < MatchCap =>
           \A n \in 1..L :
               \A k \in MatchingPatterns[scanned[n]] :
                   Cardinality(MatchPositions(error_patterns[k].category, n)) = 1

\* a finished scan below the cap in which one line is recorded under two
\* signatures: fewer matched line numbers than matches
C25_Witness ==
    /\ ScanOver
    /\ Len(found_errors) < MatchCap
    /\ \E i, j \in 1..Len(found_errors) :
           /\ found_errors[i].line_num = found_errors[j].line_num
           /\ found_errors[i].category # found_errors[j].category
    /\ Cardinality(MatchedNumbers) < Len(found_errors)

\* the lines of the fetched log that contain the filter text, in their order
Kept == SelectSeq(lines(clean_logs), LAMBDA l : contains(l, filter[1]))

\* C26: with a filter, the body that is scanned and rendered is the
\* sequence of the lines that contain the filter text when there is such a
\* line, and the whole log otherwise; line numbers of matches and of window
\* lines count within that sequence.
C26_FilteredIsKeptLines ==
    filter # None /\ pc # "fetched" =>
        /\ scanned = IF Kept # <<>> THEN Kept ELSE lines(clean_logs)
        /\ Kept # <<>> =>
               \A i \in 1..Len(found_errors) :
                   /\ found_errors[i].line_num \in 1..Len(Kept)
                   /\ Kept[found_errors[i].line_num] = found_errors[i].line

\* the build number the URL is to give, by the number part it was made
\* with: the decimal digits the part begins with, when they fit 32 bits
ClaimedNumber ==
    ("1234" :> Some("1234")) @@ ("" :> None) @@ ("notanumber" :> None)
    @@ ("12a" :> Some("12")) @@ ("12" \o ArabicIndicOne :> Some("12"))
    @@ ("4294967295" :> Some("4294967295")) @@ ("4294967296" :> None)
    @@ ("0007" :> Some("7"))

\* what parsing is to give for a URL made of the parts p
ClaimedParse(p) ==
    IF /\ p.host = "circleci.com" /\ p.vcs = "/gh/"
       /\ p.org # "" /\ p.project # ""
       /\ ClaimedNumber[p.number] # None
    THEN Ok(<<p.org, p.project, ClaimedNumber[p.number][1]>>)
    ELSE Err("any")

\* C23: parse_circleci_url gives (org, project, n) when the URL holds
\* circleci.com/gh/<org>/<project>/<digits> with org and project not empty
\* and the digits within 32 bits, and an error for every other URL.
C23_ParsesBuildUrls ==
    parsed # None =>
        \A p \in UrlParts :
            url = MakeUrl(p) =>
                /\ parsed[1].ok = ClaimedParse(p).ok
                /\ parsed[1].ok => parsed[1].value = ClaimedParse(p).value

\* C24: format_duration(m) shows floor(m / 1000) seconds as minutes =
\* floor(m / 60000) and seconds = floor(m / 1000) mod 60: "<seconds>s" when
\* minutes = 0 and "<minutes>m <seconds>s" otherwise, the seconds below 60
\* and the milliseconds cut off.
C24_DurationTruncated ==
    \A i \in 1..Len(out) :
        out[i].kind = "duration" =>
            LET m       == out[i].millis
                minutes == m \div 60000
                seconds == (m \div 1000) % 60
            IN  /\ seconds < 60
                /\ (m - minutes * 60000) - seconds * 1000 \in 0..999
                /\ out[i].text =
                       IF minutes = 0 THEN ToString(seconds) \o "s"
                       ELSE ToString(minutes) \o "m " \o ToString(seconds)
                            \o "s"

\* a count one millisecond short of two minutes, shown as 1m 59s
C24_Witness ==
    /\ pc = "formatted"
    /\ out[1].kind = "duration"
    /\ out[1].millis = 119999
    /\ out[1].text = "1m 59s"
\* the requests of one kind, in the order they were sent
Requests(kind) == SelectSeq(requests, LAMBDA r : r.kind = kind)

\* the flagged actions with a log URL that the loops have reached so far
Reached ==
    SelectSeq(to_visit(build),
              LAMBDA p : /\ ~after(p, cursor)
                         /\ ActionAt(build, p).output_url # None)

\* C21: network calls are never retried: the build is requested at most
\* once in a run, and the log URL of a failed action at most once, whether
\* the request succeeds or fails: the requests for logs are, one for one and
\* in order, those of the failed actions reached so far.
C21_NoRetry ==
    /\ Len(Requests("get_build")) <= 1
    /\ Len(Requests("get_logs")) <= Len(Reached)
    /\ \A i \in 1..Len(Requests("get_logs")) :
           Requests("get_logs")[i].url
               = ActionAt(build, Reached[i]).output_url[1]

\* a finished run in which a fetch failed and two actions had their log
\* requested
C21_Witness ==
    /\ pc = "ok"
    /\ Items("fetch_failed") # <<>>
    /\ Len(Requests("get_logs")) = 2
    /\ Len(Reached) = 2

\* the reached actions that the loops are done asking about
Handled == SelectSeq(Reached, LAMBDA p : ~(pc = "action" /\ p = cursor))

\* what a run prints about the build itself
MetadataKinds ==
    {"header", "build_ids", "build_summary", "failed_steps_header",
     "no_failed_steps", "step", "action", "skip_notice", "log_url",
     "timing_header", "timing_total", "slow_step", "timing_none",
     "quick_actions"}

\* C22: with --no-fetch no log is requested, no file is written, nothing is
\* scanned or rendered in any mode; every failed action with a log URL gets
\* the skip notice followed by its URL, and a run that ends has printed the
\* build summary and the timing analysis.
C22_NoFetchOnlyMetadata ==
    no_fetch =>
        /\ Requests("get_logs") = <<>>
        /\ files = NoFiles
        /\ clean_logs = <<"">> /\ filtered_logs = <<"">>
        /\ found_errors = <<>> /\ error_line_numbers = <<>>
        /\ pattern_idx = 0 /\ line_idx = 0
        /\ \A i \in 1..Len(out) :
               /\ out[i].kind \in MetadataKinds
               /\ out[i].kind = "skip_notice" =>
                      i < Len(out) /\ out[i + 1].kind = "log_url"
        /\ Len(Items("skip_notice")) = Len(Handled)
        /\ Items("log_url") =
               [i \in 1..Len(Handled) |->
                   [kind |-> "log_url",
                    url |-> ActionAt(build, Handled[i]).output_url[1]]]
        /\ pc = "ok" =>
               /\ Len(Items("build_summary")) = 1
               /\ Len(Items("timing_header")) = 1
               /\ Len(Handled) =
                      Len(SelectSeq(to_visit(build),
                              LAMBDA p : ActionAt(build, p).output_url # None))

\* a finished run with --no-fetch, --full, --tail, --filter and --output over
\* a build with two failed actions that have a URL and one that has none
C22_Witness ==
    /\ no_fetch /\ full_logs /\ tail_lines # None /\ output_file # None
    /\ pc = "ok"
    /\ Len(Items("log_url")) = 2
    /\ Len(to_visit(build)) = 3
    /\ Items("slow_step") # <<>>

\* the log of the action the loops are at has been fetched and saved, and
\* is being filtered, scanned or rendered
Rendering ==
    pc \notin {"start", "parsed", "error", "loop", "action", "save", "ok"}

\* every log of the server without its colour codes, by URL
Stripped == [u \in DOMAIN server_logs |-> strip_ansi(server_logs[u])]

\* the log of the action the loops are at, without its colour codes
StrippedLog == Stripped[ActionAt(build, cursor).output_url[1]]

\* the index of the last printed item of one kind, 0 when there is none
LastIndex(kind) ==
    LET I == {i \in 1..Len(out) : out[i].kind = kind}
    IN  IF I = {} THEN 0 ELSE CHOOSE i \in I : \A j \in I : j <= i

\* C27: once a log has been fetched, the cache file and the file of
\* --output, when asked for, hold the whole log without its colour codes
\* before anything of the log is filtered, scanned or rendered, in every
\* mode: the filter, the tail count and the window do not reduce it.
C27_FilesHoldWholeLog ==
    Rendering =>
        LET path == auto_save_path(parsed[1].value[3])
        IN  /\ path \in DOMAIN files
            /\ files[path] = StrippedLog
            /\ output_file # None =>
                   /\ output_file[1] \in DOMAIN files
                   /\ files[output_file[1]] = StrippedLog
            /\ LastIndex("auto_saved") > LastIndex("action")
            /\ \A i \in 1..Len(out) :
                   i > LastIndex("action") /\ out[i].kind \notin
                       {"fetching", "auto_saved", "also_saved"}
                   => i > LastIndex("auto_saved")
                      /\ (output_file # None => i > LastIndex("also_saved"))
                      /\ (output_file # None =>
                              LastIndex("also_saved") > LastIndex("action"))

\* the filter keeps one line of three and the window is rendered, with the
\* three lines in both files
C27_Witness ==
    /\ pc = "done"
    /\ filter = Some("cannot") /\ output_file # None
    /\ Len(lines(filtered_logs)) = 1
    /\ Len(files[output_file[1]]) = 3
    /\ files[auto_save_path("1234")] = files[output_file[1]]
    /\ Items("window_line") # <<>>

\* the places in the output where a log was asked for, in order: the k-th
\* is the request for the k-th reached action
FetchingAt ==
    SelectSeq([i \in 1..Len(out) |-> i], LAMBDA i : out[i].kind = "fetching")

\* the turns of the loops whose log came back and went into the cache file
SavedTurns ==
    LET at == FetchingAt
    IN  {k \in 1..Len(at) :
            at[k] < Len(out) /\ out[at[k] + 1].kind = "auto_saved"}

\* the log of the k-th reached action, as it is saved
SavedLog(k) == Stripped[ActionAt(build, Reached[k]).output_url[1]]

\* C28: every failed action of a build is saved under the one path
\* /tmp/cdb-<build_num>.log, each write replacing the one before: the file
\* holds the log of the last action whose log was fetched and saved, and
\* not the different log of an earlier action, whose closing hints named
\* the same path.
C28_OneCacheFilePerBuild ==
    ~no_fetch /\ parsed # None /\ parsed[1].ok =>
        LET path  == auto_save_path(parsed[1].value[3])
            saved == SavedTurns
            last  == CHOOSE k \in saved : \A j \in saved : j <= k
        IN  /\ \A i \in 1..Len(out) :
                   out[i].kind = "auto_saved" => out[i].path = path
            /\ DOMAIN files \subseteq
                   {path} \cup (IF output_file = None THEN {}
                                ELSE {output_file[1]})
            /\ Len(FetchingAt) <= Len(Reached)
            /\ saved # {} =>
                   /\ path \in DOMAIN files
                   /\ files[path] = SavedLog(last)
                   /\ \A k \in saved :
                          SavedLog(k) # SavedLog(last)
                          => files[path] # SavedLog(k)

\* a finished run in default mode over two failed actions with different
\* logs: both sets of closing hints are printed, the file holds the second
\* log only
C28_Witness ==
    /\ pc = "ok"
    /\ ~no_fetch
    /\ Len(Items("hints_label")) = 2
    /\ SavedTurns = {1, 2}
    /\ SavedLog(1) # SavedLog(2)
    /\ files[auto_save_path("1234")] = SavedLog(2)

\* the names of the flagged actions, in the order of the loops
VisitNames ==
    LET visits == to_visit(build)
    IN  [i \in 1..Len(visits) |->
            [kind |-> "action", name |-> ActionAt(build, visits[i]).name]]

\* what can follow the report of a failed fetch: the next step or action,
\* or the timing analysis
AfterFailedFetch == {"step", "action", "timing_header"}

\* a failed fetch is reported and nothing of the action is saved, scanned
\* or rendered; a run that ends well has gone through every flagged action
\* in order and printed the timing analysis and the quick actions; a run
\* that ends with an error did so at the URL, at the build request or at a
\* file write, never at a failed fetch, and printed neither
C29_State ==
    /\ \A i \in 1..Len(out) :
           out[i].kind = "fetch_failed" =>
               /\ i > 1 /\ out[i - 1].kind = "fetching"
               /\ i < Len(out) => out[i + 1].kind \in AfterFailedFetch
    /\ pc = "ok" =>
           /\ Items("action") = VisitNames
           /\ Len(Items("timing_header")) = 1
           /\ out[Len(out)].kind = "quick_actions"
    /\ pc = "error" =>
           /\ Items("timing_header") = <<>>
           /\ Items("quick_actions") = <<>>
           /\ out[Len(out)].kind \in
                  {"header", "build_ids", "fetching", "auto_saved"}
           /\ Items("build_summary") = <<>> =>
                  /\ Items("action") = <<>>
                  /\ Requests("get_logs") = <<>>
                  /\ files = NoFiles

\* a step that reports a failed fetch writes no file, leaves the scan alone
\* and goes back to the loops; no step leaves an error
C29_Step ==
    /\ pc # "error"
    /\ Len(Items("fetch_failed"))' > Len(Items("fetch_failed")) =>
           /\ UNCHANGED <<files, clean_logs, filtered_logs, scan>>
           /\ pc' = "loop"

\* C29: a failed log fetch is reported for its action only: no file is
\* written and nothing is scanned for it, the later failed actions are
\* still processed in step order, then action order, the timing analysis
\* and the quick actions are printed and the run ends well; a failure of
\* the build request or of a file write ends the run with an error, after
\* which nothing more is processed.
C29_FetchFailureIsLocal == [](C29_State) /\ [][C29_Step]_vars

\* the first fetch failed, the second action was then scanned and rendered,
\* and the run ended well
C29_Witness ==
    /\ pc = "ok"
    /\ Len(Items("fetch_failed")) = 1
    /\ Len(FetchingAt) = 2
    /\ SavedTurns = {2}
    /\ Items("window_line") # <<>>

\* the positions (step, action) of the build
Positions ==
    LET all == positions_from(build.steps, 1)
    IN  {all[i] : i \in 1..Len(all)}

\* the positions failed_actions yields
Yielded ==
    LET flagged == failed_actions(build)
    IN  {flagged[i] : i \in 1..Len(flagged)}

\* the status says "failed", the flag does not
StatusAlone(p) ==
    /\ ActionAt(build, p).status = "failed"
    /\ ~unwrap_or(ActionAt(build, p).failed, FALSE)

\* C30: the failure helpers agree on the failed flag: has_failures holds of
\* a step exactly when failed_actions yields an action of it, and what is
\* yielded satisfies is_failed; an action whose status is "failed" with the
\* flag absent or false satisfies is_failed but is not yielded, does not
\* make has_failures true of its step, and is not among the actions
\* analyze_build prints and fetches.
C30_HelpersFollowTheFlag ==
    LET positions == Positions
        yielded   == Yielded
        printed   == Items("action")
        names     == VisitNames
    IN  /\ \A s \in 1..Len(build.steps) :
               Step_has_failures(build.steps[s])
                   <=> \E p \in yielded : p[1] = s
        /\ \A p \in yielded : Action_is_failed(ActionAt(build, p))
        /\ \A p \in positions :
               StatusAlone(p) =>
                   /\ Action_is_failed(ActionAt(build, p))
                   /\ p \notin yielded
                   /\ (\A q \in positions : q[1] = p[1] => q \notin yielded)
                          => ~Step_has_failures(build.steps[p[1]])
        /\ to_visit(build) = failed_actions(build)
        /\ cursor # <<0, 0>> => cursor \in yielded
        /\ Len(printed) <= Len(names)
        /\ printed = SubSeq(names, 1, Len(printed))
        /\ Len(Requests("get_logs")) <= Len(printed)

\* a finished run over a build with a step whose actions all carry the
\* status alone, and a step that mixes a flagged action and one with the
\* status alone: the one flagged action with a URL is the one log requested
C30_Witness ==
    /\ pc = "ok" /\ ~no_fetch
    /\ \E p \in Positions :
           /\ StatusAlone(p)
           /\ ActionAt(build, p).failed = None
           /\ ~Step_has_failures(build.steps[p[1]])
    /\ \E p \in Positions :
           /\ StatusAlone(p)
           /\ ActionAt(build, p).output_url # None
           /\ Step_has_failures(build.steps[p[1]])
    /\ \E p \in Positions :
           /\ StatusAlone(p)
           /\ ActionAt(build, p).failed = Some(FALSE)
    /\ Len(Requests("get_logs")) = 1
    /\ Len(Items("action")) = 2

====
